---- MODULE Spec2Model ----
(***************************************************************************)
(* The accessibility MCP server: the WCAG criteria catalog                  *)
(* (wcag_data.py), the rule checkers (accessibility_rules.py) and the       *)
(* request handlers that use them (server.py).                              *)
(*                                                                          *)
(* A Python str is modelled as a sequence of one-character strings, so      *)
(* that upper(), strip(), split('.'), int() and the lexical comparison of   *)
(* two strs are computed as Python computes them.                           *)
(***************************************************************************)
EXTENDS Integers, Sequences, FiniteSets, TLC

VARIABLES data, criteria_by_number, criteria_by_level, criteria_by_principle,
          response

vars == <<data, criteria_by_number, criteria_by_level, criteria_by_principle,
          response>>

----------------------------------------------------------------------------
(* Bounds of the model *)

\* longest criteria collection the data file holds
MaxCatalog == 2

\* longest element sequence a parsed document holds
MaxElements == 2

----------------------------------------------------------------------------
(* Python values *)

\* Python's None: no str is a sequence holding a four-character string
None == <<"None">>

\* None where an object is expected: a checker that returns no issue, an
\* absent element snapshot, a criterion that is not in the catalog, no
\* pending response
NoneObj == [none |-> TRUE]

Range(s) == {s[i] : i \in DOMAIN s}

\* truthiness of an Optional[str]: None and "" are falsy
Truthy(v) == v # None /\ v # <<>>

\* str literals used by the code
A == <<"A">>
AA == <<"A", "A">>
AAA == <<"A", "A", "A">>
ALL == <<"A", "L", "L">>
all == <<"a", "l", "l">>
Perceivable == <<"P", "e", "r", "c", "e", "i", "v", "a", "b", "l", "e">>
Operable == <<"O", "p", "e", "r", "a", "b", "l", "e">>
Understandable == <<"U", "n", "d", "e", "r", "s", "t", "a", "n", "d", "a", "b", "l", "e">>
Robust == <<"R", "o", "b", "u", "s", "t">>

\* str.upper() on one character (the letters the model's inputs use)
UpperChar(c) ==
    CASE c = "a" -> "A"
      [] c = "b" -> "B"
      [] c = "l" -> "L"
      [] c = "x" -> "X"
      [] OTHER -> c

\* str.lower() on one character (the letters the model's inputs use)
LowerChar(c) ==
    CASE c = "A" -> "a"
      [] c = "B" -> "b"
      [] c = "L" -> "l"
      [] c = "X" -> "x"
      [] c = "C" -> "c"
      [] c = "H" -> "h"
      [] c = "M" -> "m"
      [] c = "O" -> "o"
      [] c = "P" -> "p"
      [] c = "R" -> "r"
      [] c = "T" -> "t"
      [] c = "U" -> "u"
      [] c = "E" -> "e"
      [] OTHER -> c

Upper(s) == [i \in DOMAIN s |-> UpperChar(s[i])]

Lower(s) == [i \in DOMAIN s |-> LowerChar(s[i])]

\* ord() of the characters a criterion number is made of
Ord(c) ==
    CASE c = "." -> 46
      [] c = "0" -> 48
      [] c = "1" -> 49
      [] c = "2" -> 50
      [] c = "3" -> 51
      [] c = "4" -> 52
      [] c = "5" -> 53
      [] c = "6" -> 54
      [] c = "7" -> 55
      [] c = "8" -> 56
      [] c = "9" -> 57

\* s < t for two Python strs: by code point at the first difference, a proper
\* prefix before the longer str
StrLess(s, t) ==
    \E k \in 1..(Len(t)) :
        /\ \A i \in 1..(k - 1) : i <= Len(s) /\ s[i] = t[i]
        /\ \/ k = Len(s) + 1
           \/ k <= Len(s) /\ Ord(s[k]) < Ord(t[k])

\* int() of a str of decimal digits
RECURSIVE ParseInt(_)
ParseInt(ds) ==
    IF Len(ds) = 0 THEN 0
    ELSE 10 * ParseInt(SubSeq(ds, 1, Len(ds) - 1)) + (Ord(ds[Len(ds)]) - 48)

\* str.split('.')
RECURSIVE Split(_)
Split(s) ==
    IF \A i \in DOMAIN s : s[i] # "."
    THEN <<s>>
    ELSE LET k == CHOOSE i \in DOMAIN s :
                      s[i] = "." /\ \A j \in 1..(i - 1) : s[j] # "."
         IN  <<SubSeq(s, 1, k - 1)>> \o Split(SubSeq(s, k + 1, Len(s)))

\* a < b for two Python lists of ints
IntListLess(a, b) ==
    \E k \in 1..(Len(b)) :
        /\ \A i \in 1..(k - 1) : i <= Len(a) /\ a[i] = b[i]
        /\ \/ k = Len(a) + 1
           \/ k <= Len(a) /\ a[k] < b[k]

\* the sort key [int(n) for n in x.number.split('.')]
NumericKey(number) ==
    LET parts == Split(number)
    IN  [i \in DOMAIN parts |-> ParseInt(parts[i])]

\* str(n) of a natural number
RECURSIVE IntStr(_)
IntStr(n) ==
    LET d == <<"0", "1", "2", "3", "4", "5", "6", "7", "8", "9">>
    IN  IF n < 10 THEN <<d[n + 1]>> ELSE IntStr(n \div 10) \o <<d[(n % 10) + 1]>>

\* the str "a.b.c" of a criterion number
Num3(a, b, c) == IntStr(a) \o <<".">> \o IntStr(b) \o <<".">> \o IntStr(c)

\* the place of s[i] after a stable sort: behind every element with a
\* smaller key and every earlier element with an equal key; smaller holds
\* the pairs <<j, i>> with key(s[j]) < key(s[i])
SortRank(s, smaller, i) ==
    1 + Cardinality({j \in DOMAIN s :
            \/ <<j, i>> \in smaller
            \/ <<i, j>> \notin smaller /\ j < i})

\* list.sort(key=...) computed by its result
StableSort(s, smaller) ==
    [k \in DOMAIN s |-> s[CHOOSE i \in DOMAIN s : SortRank(s, smaller, i) = k]]

----------------------------------------------------------------------------
(* wcag_data.py: the criteria catalog *)

\* one record of the data file's "criteria" object
WCAGCriterion(number, id, title, level, version, description, principle, guideline) ==
    [number |-> number, id |-> id, title |-> title, level |-> level,
     version |-> version, description |-> description,
     principle |-> principle, guideline |-> guideline, exceptions |-> None]

\* the criterion records a data file of the model is made of; the level of
\* a number is whatever the data file says
CriteriaPool ==
    { WCAGCriterion(Num3(1, 1, 1), <<"n", "t">>, <<"A", "l", "t">>, A,
                    <<"2", ".", "0">>, <<"t", "e", "x", "t">>, Perceivable,
                    <<"T", "e", "x", "t">>),
      WCAGCriterion(Num3(2, 4, 4), <<"l", "p">>, <<"L", "i", "n", "k">>, AA,
                    <<"2", ".", "0">>, <<"l", "i", "n", "k">>, Operable,
                    <<"N", "a", "v">>),
      WCAGCriterion(Num3(1, 4, 3), <<"c", "m">>, <<"M", "i", "n">>, AA,
                    <<"2", ".", "0">>, <<"t", "e", "x", "t">>, Perceivable,
                    <<"H", "u", "e">>),
      WCAGCriterion(Num3(1, 4, 11), <<"n", "c">>, <<"H", "u", "e">>, AA,
                    <<"2", ".", "1">>, <<"i", "c", "o", "n">>, Perceivable,
                    <<"H", "u", "e">>),
      WCAGCriterion(Num3(1, 4, 6), <<"c", "e">>, <<"M", "a", "x">>, AAA,
                    <<"2", ".", "0">>, <<"t", "e", "x", "t">>, Perceivable,
                    <<"H", "u", "e">>) }

\* the data files: the criteria object in file order, its keys distinct
DataFiles ==
    UNION { { cs \in [1..k -> CriteriaPool] :
                \A i, j \in 1..k : i # j => cs[i].number # cs[j].number }
            : k \in 0..MaxCatalog }

\* WCAGDataLoader._process_criteria: the by-number index in insertion order
\* and the per-level and per-principle lists, each in file order
ProcessByNumber(criteria) == criteria

ProcessByLevel(criteria) ==
    [l \in {A, AA, AAA} |-> SelectSeq(criteria, LAMBDA c : c.level = l)]

ProcessByPrinciple(criteria) ==
    [p \in {criteria[i].principle : i \in DOMAIN criteria} |->
        SelectSeq(criteria, LAMBDA c : c.principle = p)]

\* WCAGDataLoader.get_criterion: dict.get(number)
get_criterion(number) ==
    IF \E i \in DOMAIN criteria_by_number : criteria_by_number[i].number = number
    THEN criteria_by_number[CHOOSE i \in DOMAIN criteria_by_number :
                                criteria_by_number[i].number = number]
    ELSE NoneObj

\* WCAGDataLoader.get_criteria_by_level: the list object of the level, or a
\* new empty list
get_criteria_by_level(level) ==
    IF level \in DOMAIN criteria_by_level THEN criteria_by_level[level] ELSE <<>>

\* WCAGDataLoader.get_criteria_by_principle: the list object of the
\* principle, or a new empty list
get_criteria_by_principle(principle) ==
    IF principle \in DOMAIN criteria_by_principle
    THEN criteria_by_principle[principle] ELSE <<>>

\* WCAGDataLoader.get_all_criteria: a new list of the index's values
get_all_criteria == criteria_by_number

\* WCAGDataLoader.get_principles
get_principles == <<Perceivable, Operable, Understandable, Robust>>

----------------------------------------------------------------------------
(* accessibility_rules.py: the rule checkers *)

\* the attribute names the checkers read
AttrNames == {"alt", "role", "type", "id", "aria-label", "aria-labelledby",
              "title", "lang", "onclick", "tabindex"}

\* an element dict of parse_html_to_elements; attrs is a set of <<name, value>>
Element(tag, attrs, text) ==
    [tag |-> tag,
     attributes |-> [k \in AttrNames |->
                        IF \E pr \in attrs : pr[1] = k
                        THEN (CHOOSE pr \in attrs : pr[1] = k)[2]
                        ELSE None],
     text |-> text]

\* html_element.get("attributes", {}).get(name): None when the key is absent
Attr(element, name) == element.attributes[name]

Whitespace == {" ", "\t", "\n"}

\* str.strip()
RECURSIVE Strip(_)
Strip(s) ==
    IF Len(s) = 0 THEN s
    ELSE IF s[1] \in Whitespace THEN Strip(Tail(s))
    ELSE IF s[Len(s)] \in Whitespace THEN Strip(SubSeq(s, 1, Len(s) - 1))
    ELSE s

\* a format string and the values put into it
Fmt(text, args) == [text |-> text, args |-> args]

\* variant: the severity follows the element, an element without text
\* lowering an error to a warning
AccessibilityIssueByElement(rule_id, severity, wcag_level, message, element, suggestion, wcag_criteria) ==
    [rule_id |-> rule_id,
     severity |-> IF element # NoneObj /\ element.text = <<>> /\ severity = "error"
                  THEN "warning" ELSE severity,
     wcag_level |-> wcag_level,
     message |-> message, element |-> element, suggestion |-> suggestion,
     wcag_criteria |-> wcag_criteria]

AccessibilityIssue(rule_id, severity, wcag_level, message, element, suggestion, wcag_criteria) ==
    [rule_id |-> rule_id, severity |-> severity, wcag_level |-> wcag_level,
     message |-> message, element |-> element, suggestion |-> suggestion,
     wcag_criteria |-> wcag_criteria]

\* a value that is neither a str nor None: a number
Number == <<"int">>

\* isinstance(v, str), for the values of the model
IsStr(v) == v \notin {None, Number}

\* variant: the role is not looked at
IsPresentationNever(html_element) == FALSE

\* html_element.get("attributes", {}).get("role") == "presentation"
IsPresentation(html_element) ==
    Attr(html_element, "role") =
        <<"p", "r", "e", "s", "e", "n", "t", "a", "t", "i", "o", "n">>

check_img_alt_text(html_element) ==
    IF html_element.tag = <<"i", "m", "g">>
    THEN LET alt == Attr(html_element, "alt")
         IN  IF alt = None
             THEN AccessibilityIssue("img-alt-missing", "error", A,
                      Fmt("Image missing alt attribute", <<>>), html_element,
                      Fmt("Add an alt attribute to describe the image. Use alt='' for decorative images.", <<>>),
                      Num3(1, 1, 1))
             ELSE IF Strip(alt) = <<>> /\ ~IsPresentation(html_element)
             THEN AccessibilityIssue("img-alt-empty", "warning", A,
                      Fmt("Image has empty alt text", <<>>), html_element,
                      Fmt("If decorative, add role='presentation'. Otherwise, provide descriptive alt text.", <<>>),
                      Num3(1, 1, 1))
             ELSE NoneObj
    ELSE NoneObj

IsDigit(c) == c \in {"0", "1", "2", "3", "4", "5", "6", "7", "8", "9"}

\* variant: a jump from no previous heading counts too
SkipsLevelFromAny(prev_level, level) == level > prev_level + 1

\* prev_level > 0 and level > prev_level + 1
SkipsLevel(prev_level, level) == prev_level > 0 /\ level > prev_level + 1

\* the loop of check_heading_hierarchy from heading i on; tag.startswith
\* raises AttributeError when tag is no str, and int(tag[1]) raises
\* ValueError when tag[1] is no digit
RECURSIVE HeadingScan(_, _, _, _)
HeadingScan(headings, i, prev_level, issues) ==
    IF i > Len(headings) THEN [raised |-> FALSE, issues |-> issues]
    ELSE LET heading == headings[i]
             tag == heading.tag
         IN  IF ~IsStr(tag) THEN [raised |-> TRUE, issues |-> issues]
             ELSE IF Len(tag) = 2 /\ tag[1] = "h"
             THEN IF ~IsDigit(tag[2]) THEN [raised |-> TRUE, issues |-> issues]
                  ELSE LET level == ParseInt(<<tag[2]>>)
                       IN  HeadingScan(headings, i + 1, level,
                             IF SkipsLevel(prev_level, level)
                             THEN Append(issues,
                                    AccessibilityIssue("heading-skipped-level", "error", A,
                                        Fmt("Heading level skipped from h{} to h{}",
                                            <<IntStr(prev_level), IntStr(level)>>),
                                        heading,
                                        Fmt("Use h{} instead of h{}",
                                            <<IntStr(prev_level + 1), IntStr(level)>>),
                                        Num3(1, 3, 1)))
                             ELSE issues)
             ELSE HeadingScan(headings, i + 1, prev_level, issues)

\* variant: any heading that is not an h1 counts
StartsOrGoesOnWithoutH1(headings) ==
    \E i \in DOMAIN headings : headings[i].tag # <<"h", "1">>

\* headings[0].get("tag") != "h1"
StartsWithoutH1(headings) == headings[1].tag # <<"h", "1">>

\* check_heading_hierarchy: [raised, issues]
check_heading_hierarchy(headings) ==
    IF headings = <<>> THEN [raised |-> FALSE, issues |-> <<>>]
    ELSE HeadingScan(headings, 1, 0,
            IF StartsWithoutH1(headings)
            THEN <<AccessibilityIssue("heading-no-h1", "warning", A,
                       Fmt("Page should start with an h1 heading", <<>>), NoneObj,
                       Fmt("Add an h1 as the main page heading", <<>>),
                       Num3(1, 3, 1))>>
            ELSE <<>>)

check_form_labels(form_element) ==
    LET tag == form_element.tag
    IN  IF tag \in {<<"i", "n", "p", "u", "t">>, <<"s", "e", "l", "e", "c", "t">>,
                    <<"t", "e", "x", "t", "a", "r", "e", "a">>}
        THEN LET input_type == IF Attr(form_element, "type") = None
                               THEN <<"t", "e", "x", "t">>
                               ELSE Attr(form_element, "type")
             IN  IF input_type \in {<<"s", "u", "b", "m", "i", "t">>,
                                    <<"b", "u", "t", "t", "o", "n">>,
                                    <<"r", "e", "s", "e", "t">>,
                                    <<"h", "i", "d", "d", "e", "n">>}
                 THEN NoneObj
                 ELSE IF ~(\/ Truthy(Attr(form_element, "id"))
                           \/ Truthy(Attr(form_element, "aria-label"))
                           \/ Truthy(Attr(form_element, "aria-labelledby"))
                           \/ Truthy(Attr(form_element, "title")))
                 THEN AccessibilityIssue("form-no-label", "error", A,
                          Fmt("{} element missing label", <<tag>>), form_element,
                          Fmt("Add a label element with for attribute, or use aria-label/aria-labelledby", <<>>),
                          Num3(3, 3, 2))
                 ELSE NoneObj
        ELSE NoneObj

generic_texts ==
    { <<"c", "l", "i", "c", "k", " ", "h", "e", "r", "e">>,
      <<"r", "e", "a", "d", " ", "m", "o", "r", "e">>,
      <<"l", "e", "a", "r", "n", " ", "m", "o", "r", "e">>,
      <<"h", "e", "r", "e">>, <<"l", "i", "n", "k">>, <<"m", "o", "r", "e">> }

check_link_text(link_element) ==
    IF link_element.tag = <<"a">>
    THEN LET text == Strip(link_element.text)
             aria_label == Attr(link_element, "aria-label")
         IN  IF text = <<>> /\ ~Truthy(aria_label)
             THEN AccessibilityIssue("link-no-text", "error", A,
                      Fmt("Link has no accessible text", <<>>), link_element,
                      Fmt("Add link text or aria-label attribute", <<>>),
                      Num3(2, 4, 4))
             ELSE IF Lower(text) \in generic_texts /\ ~Truthy(aria_label)
             THEN AccessibilityIssue("link-generic-text", "warning", A,
                      Fmt("Link text '{}' is not descriptive", <<text>>), link_element,
                      Fmt("Use descriptive link text that explains the destination", <<>>),
                      Num3(2, 4, 4))
             ELSE NoneObj
    ELSE NoneObj

check_language_attribute(html_element) ==
    IF html_element.tag = <<"h", "t", "m", "l">> /\ ~Truthy(Attr(html_element, "lang"))
    THEN AccessibilityIssue("html-no-lang", "error", A,
             Fmt("HTML element missing lang attribute", <<>>), NoneObj,
             Fmt("Add lang attribute to specify the page language (e.g., lang='en')", <<>>),
             Num3(3, 1, 1))
    ELSE NoneObj

valid_roles ==
    { <<"b", "u", "t", "t", "o", "n">>,
      <<"l", "i", "n", "k">>,
      <<"n", "a", "v", "i", "g", "a", "t", "i", "o", "n">>,
      <<"m", "a", "i", "n">>,
      <<"b", "a", "n", "n", "e", "r">>,
      <<"c", "o", "n", "t", "e", "n", "t", "i", "n", "f", "o">>,
      <<"c", "o", "m", "p", "l", "e", "m", "e", "n", "t", "a", "r", "y">>,
      <<"s", "e", "a", "r", "c", "h">>,
      <<"f", "o", "r", "m">>,
      <<"r", "e", "g", "i", "o", "n">>,
      <<"a", "l", "e", "r", "t">>,
      <<"s", "t", "a", "t", "u", "s">>,
      <<"d", "i", "a", "l", "o", "g">>,
      <<"a", "l", "e", "r", "t", "d", "i", "a", "l", "o", "g">>,
      <<"m", "e", "n", "u">>,
      <<"m", "e", "n", "u", "b", "a", "r">>,
      <<"m", "e", "n", "u", "i", "t", "e", "m">>,
      <<"t", "a", "b">>,
      <<"t", "a", "b", "l", "i", "s", "t">>,
      <<"t", "a", "b", "p", "a", "n", "e", "l">>,
      <<"t", "o", "o", "l", "b", "a", "r">>,
      <<"t", "r", "e", "e">>,
      <<"t", "r", "e", "e", "g", "r", "i", "d">>,
      <<"t", "r", "e", "e", "i", "t", "e", "m">>,
      <<"g", "r", "i", "d">>,
      <<"g", "r", "i", "d", "c", "e", "l", "l">>,
      <<"r", "o", "w">>,
      <<"c", "o", "l", "u", "m", "n", "h", "e", "a", "d", "e", "r">>,
      <<"r", "o", "w", "h", "e", "a", "d", "e", "r">>,
      <<"l", "i", "s", "t">>,
      <<"l", "i", "s", "t", "i", "t", "e", "m">>,
      <<"h", "e", "a", "d", "i", "n", "g">>,
      <<"i", "m", "g">>,
      <<"p", "r", "e", "s", "e", "n", "t", "a", "t", "i", "o", "n">>,
      <<"n", "o", "n", "e">> }

check_aria_roles(element) ==
    LET role == Attr(element, "role")
    IN  IF Truthy(role) /\ role \notin valid_roles
        THEN AccessibilityIssue("aria-invalid-role", "error", A,
                 Fmt("Invalid ARIA role '{}'", <<role>>), element,
                 Fmt("Use a valid ARIA role from the WAI-ARIA specification", <<>>),
                 Num3(4, 1, 2))
        ELSE NoneObj

check_keyboard_accessibility(element) ==
    LET tag == element.tag
        onclick == Attr(element, "onclick")
        role == Attr(element, "role")
        tabindex == Attr(element, "tabindex")
    IN  IF /\ Truthy(onclick)
           /\ tag \notin {<<"a">>, <<"b", "u", "t", "t", "o", "n">>,
                          <<"i", "n", "p", "u", "t">>, <<"s", "e", "l", "e", "c", "t">>,
                          <<"t", "e", "x", "t", "a", "r", "e", "a">>}
           /\ role \notin {<<"b", "u", "t", "t", "o", "n">>, <<"l", "i", "n", "k">>}
           /\ tabindex = None
        THEN AccessibilityIssue("keyboard-no-access", "error", A,
                 Fmt("Clickable element not keyboard accessible", <<>>), element,
                 Fmt("Add tabindex='0' and keyboard event handlers, or use a button element", <<>>),
                 Num3(2, 1, 1))
        ELSE NoneObj

check_touch_target_size(element) ==
    LET tag == element.tag
        role == Attr(element, "role")
    IN  IF \/ tag \in {<<"b", "u", "t", "t", "o", "n">>, <<"a">>}
           \/ role \in {<<"b", "u", "t", "t", "o", "n">>, <<"l", "i", "n", "k">>}
        THEN AccessibilityIssue("touch-target-size", "info", AAA,
                 Fmt("Verify touch target is at least 44x44 CSS pixels", <<>>), element,
                 Fmt("Ensure interactive elements are large enough for touch interaction", <<>>),
                 Num3(2, 5, 5))
        ELSE NoneObj

\* sub in s, for two strs
Contains(sub, s) ==
    \E k \in 0..(Len(s) - Len(sub)) : SubSeq(s, k + 1, k + Len(sub)) = sub

\* AccessibilityRules.check_color_contrast: the reminder it always returns
AccessibilityRules_check_color_contrast ==
    AccessibilityIssue("color-contrast-check", "info", AA,
        Fmt("Color contrast should be checked", <<>>), NoneObj,
        Fmt("Ensure contrast ratio is at least 4.5:1 for normal text, 3:1 for large text", <<>>),
        Num3(1, 4, 3))

\* the rule removes the outline and names no other indicator
RemovesFocusIndicator(rule) ==
    /\ \/ Contains(<<"o", "u", "t", "l", "i", "n", "e", ":", " ", "n", "o", "n", "e">>, rule)
       \/ Contains(<<"o", "u", "t", "l", "i", "n", "e", ":", " ", "0">>, rule)
    /\ ~\E indicator \in {<<"b", "o", "r", "d", "e", "r">>,
                          <<"b", "o", "x", "-", "s", "h", "a", "d", "o", "w">>,
                          <<"b", "a", "c", "k", "g", "r", "o", "u", "n", "d">>} :
           Contains(indicator, rule)

check_focus_visible(css_rules) ==
    IF \E k \in DOMAIN css_rules : RemovesFocusIndicator(css_rules[k])
    THEN AccessibilityIssue("focus-not-visible", "warning", AA,
             Fmt("Focus indicator may be removed without alternative", <<>>), NoneObj,
             Fmt("Provide visible focus indicators using border, box-shadow, or background changes", <<>>),
             Num3(2, 4, 7))
    ELSE NoneObj

----------------------------------------------------------------------------
(* State after construction: WCAGDataLoader.__init__ has run _load_data *)

Init ==
    /\ \/ \* the data file was not found
          /\ data = [found |-> FALSE, criteria |-> <<>>]
          /\ criteria_by_number = <<>>
          /\ criteria_by_level = [l \in {A, AA, AAA} |-> <<>>]
          /\ criteria_by_principle = << >>
       \/ \E cs \in DataFiles :
          /\ data = [found |-> TRUE, criteria |-> cs]
          /\ criteria_by_number = ProcessByNumber(cs)
          /\ criteria_by_level = ProcessByLevel(cs)
          /\ criteria_by_principle = ProcessByPrinciple(cs)
    /\ response = NoneObj

----------------------------------------------------------------------------
(* server.py: the request handlers *)

\* [x for x in s if x is not None]
Present(s) == SelectSeq(s, LAMBDA x : x # NoneObj)

RECURSIVE Flatten(_)
Flatten(ss) == IF ss = <<>> THEN <<>> ELSE Head(ss) \o Flatten(Tail(ss))

HeadingTags == {<<"h", "1">>, <<"h", "2">>, <<"h", "3">>, <<"h", "4">>,
                <<"h", "5">>, <<"h", "6">>}

extract_headings(elements) == SelectSeq(elements, LAMBDA e : e.tag \in HeadingTags)

\* variant: the touch target check run with the others
ElementChecksWithTouchTarget(element) ==
    Present(<<check_img_alt_text(element),
              check_form_labels(element),
              check_link_text(element),
              check_language_attribute(element),
              check_aria_roles(element),
              check_keyboard_accessibility(element),
              check_touch_target_size(element)>>)

\* the checks check_html_accessibility runs on one element, in call order
ElementChecks(element) ==
    Present(<<check_img_alt_text(element),
              check_form_labels(element),
              check_link_text(element),
              check_language_attribute(element),
              check_aria_roles(element),
              check_keyboard_accessibility(element)>>)

\* variant: the per-element checks stop after the first element
CollectIssuesOfFirstElement(elements) ==
    (IF elements = <<>> THEN <<>> ELSE ElementChecks(elements[1]))
        \o check_heading_hierarchy(extract_headings(elements)).issues

\* the issues list of check_html_accessibility before it is filtered
CollectIssues(elements) ==
    Flatten([i \in DOMAIN elements |-> ElementChecks(elements[i])])
        \o check_heading_hierarchy(extract_headings(elements)).issues

IssueDict(issue) ==
    [rule_id |-> issue.rule_id, message |-> issue.message,
     wcag_level |-> issue.wcag_level, wcag_criteria |-> issue.wcag_criteria,
     suggestion |-> issue.suggestion]

IssueDicts(issues) == [k \in DOMAIN issues |-> IssueDict(issues[k])]

\* the result dict, from the issues by severity
HtmlReport(issues, errors, warnings, info) ==
    [total_issues |-> Len(issues),
     errors |-> errors, warnings |-> warnings, info |-> info,
     summary |-> [errors |-> Len(errors), warnings |-> Len(warnings),
                  info |-> Len(info)]]

\* issues organised by severity: error, warning, and everything else as info
OrganizeIssues(issues) ==
    HtmlReport(issues,
        IssueDicts(SelectSeq(issues, LAMBDA i : i.severity = "error")),
        IssueDicts(SelectSeq(issues, LAMBDA i : i.severity = "warning")),
        IssueDicts(SelectSeq(issues, LAMBDA i : i.severity \notin {"error", "warning"})))

\* variant: without include_warnings only the info issues are dropped
FilterIssuesKeepingWarnings(issues, include_warnings) ==
    IF ~include_warnings
    THEN SelectSeq(issues, LAMBDA i : i.severity # "info")
    ELSE issues

\* the issues kept for the result
FilterIssues(issues, include_warnings) ==
    IF ~include_warnings
    THEN SelectSeq(issues, LAMBDA i : i.severity = "error")
    ELSE issues

HtmlResult(elements, include_warnings) ==
    OrganizeIssues(FilterIssues(CollectIssues(elements), include_warnings))

\* the (criterion number, issue) pairs validate_wcag_compliance_level files
\* for one element, in call order: the key is the literal of the setdefault
ElementGroups(element) ==
    SelectSeq(<<[key |-> Num3(1, 1, 1), issue |-> check_img_alt_text(element)],
                [key |-> Num3(3, 3, 2), issue |-> check_form_labels(element)],
                [key |-> Num3(2, 4, 4), issue |-> check_link_text(element)],
                [key |-> Num3(3, 1, 1), issue |-> check_language_attribute(element)],
                [key |-> Num3(4, 1, 2), issue |-> check_aria_roles(element)],
                [key |-> Num3(2, 1, 1), issue |-> check_keyboard_accessibility(element)]>>,
              LAMBDA g : g.issue # NoneObj)

\* variant: the heading issues filed under 2.4.6
HeadingGroupsUnderLabels(heading_issues) ==
    [k \in DOMAIN heading_issues |->
        [key |-> Num3(2, 4, 6), issue |-> heading_issues[k]]]

\* the heading issues, filed under the literal key of their setdefault
HeadingGroups(heading_issues) ==
    [k \in DOMAIN heading_issues |->
        [key |-> Num3(1, 3, 1), issue |-> heading_issues[k]]]

\* every (key, issue) pair in the order it is appended to criterion_issues
GroupedIssues(elements) ==
    Flatten([i \in DOMAIN elements |-> ElementGroups(elements[i])])
        \o HeadingGroups(check_heading_hierarchy(extract_headings(elements)).issues)

\* the issues appended under one key, in order
IssuesOfKey(pairs, key) ==
    [number |-> key,
     issues |-> [k \in DOMAIN SelectSeq(pairs, LAMBDA g : g.key = key) |->
                    SelectSeq(pairs, LAMBDA g : g.key = key)[k].issue]]

\* the positions of pairs at which a key appears for the first time
FirstOfKey(pairs) ==
    SelectSeq([k \in DOMAIN pairs |-> k],
              LAMBDA k : \A j \in 1..(k - 1) : pairs[j].key # pairs[k].key)

\* a dict's items from its appends: the keys in insertion order, each with
\* its list
DictItems(pairs) ==
    [n \in DOMAIN FirstOfKey(pairs) |->
        IssuesOfKey(pairs, pairs[FirstOfKey(pairs)[n]].key)]

\* criterion_issues.items()
CriterionIssues(elements) == DictItems(GroupedIssues(elements))

\* variant: the level compared as given
ValidTargetExact(target_level) == target_level \in {A, AA, AAA}

\* the target levels validate_wcag_compliance_level accepts
ValidTarget(target_level) == Upper(target_level) \in {A, AA, AAA}

\* variant: only the list of the target level itself
RequiredCriteriaSingleLevel(target_level) == get_criteria_by_level(Upper(target_level))

\* required_criteria: the criteria of the target level and below
RequiredCriteria(target_level) ==
    (IF Upper(target_level) \in {A, AA, AAA} THEN get_criteria_by_level(A) ELSE <<>>)
    \o (IF Upper(target_level) \in {AA, AAA} THEN get_criteria_by_level(AA) ELSE <<>>)
    \o (IF Upper(target_level) = AAA THEN get_criteria_by_level(AAA) ELSE <<>>)

Violation(number, criterion, issue, include_suggestions) ==
    LET base == [criterion |-> number, criterion_title |-> criterion.title,
                 criterion_level |-> criterion.level, issue |-> issue.message,
                 severity |-> issue.severity, element |-> issue.element]
    IN  IF include_suggestions
        THEN [f \in DOMAIN base \cup {"suggestion"} |->
                 IF f = "suggestion" THEN issue.suggestion ELSE base[f]]
        ELSE base

\* variant: a group counts when its criterion is in the catalog, required or
\* not
GroupCountsInCatalog(number, required_criteria) == get_criterion(number) # NoneObj

\* a group's issues become violations when its criterion is in the catalog
\* and among the required criteria
GroupCounts(number, required_criteria) ==
    /\ get_criterion(number) # NoneObj
    /\ \E i \in DOMAIN required_criteria : required_criteria[i].number = number

\* variant: one violation per criterion, for its first issue
GroupViolationsFirstOnly(group, required_criteria, include_suggestions) ==
    IF GroupCounts(group.number, required_criteria)
    THEN <<Violation(group.number, get_criterion(group.number),
                     group.issues[1], include_suggestions)>>
    ELSE <<>>

GroupViolations(group, required_criteria, include_suggestions) ==
    IF GroupCounts(group.number, required_criteria)
    THEN [k \in DOMAIN group.issues |->
             Violation(group.number, get_criterion(group.number),
                       group.issues[k], include_suggestions)]
    ELSE <<>>

\* the violations list built from criterion_issues.items()
BuildViolations(groups, required_criteria, include_suggestions) ==
    Flatten([n \in DOMAIN groups |->
                GroupViolations(groups[n], required_criteria, include_suggestions)])

Violations(elements, required_criteria, include_suggestions) ==
    BuildViolations(CriterionIssues(elements), required_criteria, include_suggestions)

\* variant: every violation counted, not every criterion
ViolatedCriteriaPerViolation(violations) == Len(violations)

\* len(set(v["criterion"] for v in violations))
ViolatedCriteria(violations) ==
    Cardinality({violations[i].criterion : i \in DOMAIN violations})

\* round(x, 1) of the fraction num/den >= 0, in tenths: to the nearest tenth,
\* a tie to the even one
RoundTenths(num, den) ==
    LET q == (10 * num) \div den
        r == (10 * num) % den
    IN  IF 2 * r < den THEN q
        ELSE IF 2 * r > den THEN q + 1
        ELSE IF q % 2 = 0 THEN q ELSE q + 1

\* variant: no criteria required counted as nothing met
CompliancePercentageNoneMet(total_required, violated_criteria) ==
    IF total_required > 0
    THEN [num |-> (total_required - violated_criteria) * 100, den |-> total_required]
    ELSE [num |-> 0, den |-> 1]

\* compliance_percentage before rounding, as the fraction [num, den]
CompliancePercentage(total_required, violated_criteria) ==
    IF total_required > 0
    THEN [num |-> (total_required - violated_criteria) * 100, den |-> total_required]
    ELSE [num |-> 100, den |-> 1]

\* round(compliance_percentage, 1), in tenths of a percent
RoundedPercentage(fraction) == RoundTenths(fraction.num, fraction.den)

\* the returned report
ComplianceReport(target_level, total_required, violations, violated_criteria) ==
    [target_level |-> Upper(target_level),
     compliance_status |-> IF Len(violations) = 0 THEN "PASS" ELSE "FAIL",
     compliance_percentage |->
         RoundedPercentage(CompliancePercentage(total_required, violated_criteria)),
     total_required_criteria |-> total_required,
     violated_criteria |-> violated_criteria,
     total_violations |-> Len(violations),
     violations |-> violations,
     summary |-> Fmt("{} WCAG {} with {} criteria violations",
                     <<IF Len(violations) = 0
                       THEN <<"P", "a", "s", "s", "e", "s">>
                       ELSE <<"F", "a", "i", "l", "s">>,
                       Upper(target_level), IntStr(violated_criteria)>>)]

\* the report from the required criteria and the violations
Calculate(target_level, required_criteria, violations) ==
    ComplianceReport(target_level, Len(required_criteria), violations,
                     ViolatedCriteria(violations))

\* the handler after the target level is accepted
Evaluate(elements, target_level, required_criteria, include_suggestions) ==
    Calculate(target_level, required_criteria,
              Violations(elements, required_criteria, include_suggestions))

ComplianceResult(elements, target_level, include_suggestions) ==
    IF ~ValidTarget(target_level)
    THEN [error |-> "Target level must be A, AA, or AAA"]
    ELSE Evaluate(elements, target_level, RequiredCriteria(target_level),
                  include_suggestions)

\* variant: the numbers compared as strs
NumericLessAsStr(c1, c2) == StrLess(c1.number, c2.number)

\* the key of list_wcag_criteria's sort: [int(n) for n in number.split('.')]
NumericLess(c1, c2) == IntListLess(NumericKey(c1.number), NumericKey(c2.number))

\* criteria.sort(key=lambda x: [int(n) for n in x.number.split('.')])
SortByNumber(criteria) ==
    StableSort(criteria,
               {pr \in (DOMAIN criteria) \X (DOMAIN criteria) :
                    NumericLess(criteria[pr[1]], criteria[pr[2]])})

\* the level and principle values list_wcag_criteria accepts
ValidListLevel(level) == Upper(level) \in {A, AA, AAA, ALL}

ValidListPrinciple(principle) == principle \in Range(get_principles) \cup {all}

\* the list object list_wcag_criteria sorts: `shared` names the catalog list
\* it is ("level" or "principle", with its key), or "new" for a list built
\* by the call
ListSelection(level, principle) ==
    IF Upper(level) = ALL /\ Lower(principle) = all
    THEN [criteria |-> get_all_criteria, shared |-> "new", key |-> <<>>]
    ELSE IF Upper(level) = ALL
    THEN [criteria |-> get_criteria_by_principle(principle),
          shared |-> IF principle \in DOMAIN criteria_by_principle
                     THEN "principle" ELSE "new",
          key |-> principle]
    ELSE IF Lower(principle) = all
    THEN [criteria |-> get_criteria_by_level(Upper(level)),
          shared |-> IF Upper(level) \in DOMAIN criteria_by_level
                     THEN "level" ELSE "new",
          key |-> Upper(level)]
    ELSE [criteria |-> SelectSeq(get_criteria_by_principle(principle),
                                 LAMBDA c : c.level = Upper(level)),
          shared |-> "new", key |-> <<>>]

ListEntry(criterion) ==
    [number |-> criterion.number, title |-> criterion.title,
     level |-> criterion.level, version |-> criterion.version,
     principle |-> criterion.principle, guideline |-> criterion.guideline]

\* variant: the criteria listed in the order the selection has them
ListResultAsStored(level, principle) ==
    IF ~ValidListLevel(level)
    THEN [error |-> "Level must be A, AA, AAA, or 'all'"]
    ELSE IF ~ValidListPrinciple(principle)
    THEN [error |-> "Principle must be one of: ..."]
    ELSE LET criteria == ListSelection(level, principle).criteria
         IN  [filters |-> [level |-> level, principle |-> principle],
              total_criteria |-> Len(criteria),
              criteria |-> [k \in DOMAIN criteria |-> ListEntry(criteria[k])]]

ListResult(level, principle) ==
    IF ~ValidListLevel(level)
    THEN [error |-> "Level must be A, AA, AAA, or 'all'"]
    ELSE IF ~ValidListPrinciple(principle)
    THEN [error |-> "Principle must be one of: ..."]
    ELSE LET criteria == SortByNumber(ListSelection(level, principle).criteria)
         IN  [filters |-> [level |-> level, principle |-> principle],
              total_criteria |-> Len(criteria),
              criteria |-> [k \in DOMAIN criteria |-> ListEntry(criteria[k])]]

\* technique_mappings of get_criteria_for_techniques
technique_mappings(t) ==
    CASE t = <<"i", "m", "a", "g", "e", "s">> ->
           <<Num3(1, 1, 1), Num3(1, 4, 5), Num3(1, 4, 9)>>
      [] t = <<"f", "o", "r", "m", "s">> ->
           <<Num3(1, 3, 1), Num3(3, 3, 1), Num3(3, 3, 2), Num3(3, 3, 3),
             Num3(3, 3, 4), Num3(4, 1, 2)>>
      [] t = <<"c", "o", "l", "o", "r">> ->
           <<Num3(1, 4, 1), Num3(1, 4, 3), Num3(1, 4, 6), Num3(1, 4, 11)>>
      [] t = <<"k", "e", "y", "b", "o", "a", "r", "d">> ->
           <<Num3(2, 1, 1), Num3(2, 1, 2), Num3(2, 1, 4), Num3(2, 4, 3),
             Num3(2, 4, 7)>>
      [] t = <<"h", "e", "a", "d", "i", "n", "g", "s">> ->
           <<Num3(1, 3, 1), Num3(2, 4, 6), Num3(2, 4, 10)>>
      [] t = <<"l", "i", "n", "k", "s">> ->
           <<Num3(2, 4, 4), Num3(2, 4, 9), Num3(4, 1, 2)>>
      [] t = <<"l", "a", "n", "g", "u", "a", "g", "e">> ->
           <<Num3(3, 1, 1), Num3(3, 1, 2)>>
      [] t = <<"m", "e", "d", "i", "a">> ->
           <<Num3(1, 2, 1), Num3(1, 2, 2), Num3(1, 2, 3), Num3(1, 2, 4),
             Num3(1, 2, 5), Num3(1, 2, 6), Num3(1, 2, 7), Num3(1, 2, 8),
             Num3(1, 2, 9)>>
      [] t = <<"t", "i", "m", "i", "n", "g">> ->
           <<Num3(2, 2, 1), Num3(2, 2, 2), Num3(2, 2, 3), Num3(2, 2, 4),
             Num3(2, 2, 5), Num3(2, 2, 6)>>
      [] t = <<"s", "e", "i", "z", "u", "r", "e", "s">> ->
           <<Num3(2, 3, 1), Num3(2, 3, 2), Num3(2, 3, 3)>>
      [] t = <<"n", "a", "v", "i", "g", "a", "t", "i", "o", "n">> ->
           <<Num3(2, 4, 1), Num3(2, 4, 2), Num3(2, 4, 5), Num3(2, 4, 8),
             Num3(3, 2, 3), Num3(3, 2, 4)>>
      [] t = <<"i", "n", "p", "u", "t">> ->
           <<Num3(1, 3, 5), Num3(2, 5, 1), Num3(2, 5, 2), Num3(2, 5, 3),
             Num3(2, 5, 4), Num3(2, 5, 6), Num3(3, 3, 7), Num3(3, 3, 8)>>
      [] t = <<"f", "o", "c", "u", "s">> ->
           <<Num3(2, 4, 7), Num3(2, 4, 11), Num3(2, 4, 12), Num3(2, 4, 13)>>
      [] OTHER -> <<>>

\* WCAGDataLoader.get_criteria_for_techniques: a new list, in mapping order
get_criteria_for_techniques(technique_type) ==
    LET numbers == technique_mappings(Lower(technique_type))
        known == SelectSeq(numbers, LAMBDA num : get_criterion(num) # NoneObj)
    IN  [k \in DOMAIN known |-> get_criterion(known[k])]

\* level_order.get(level, 4)
level_order(level) ==
    CASE level = A -> 1 [] level = AA -> 2 [] level = AAA -> 3 [] OTHER -> 4

\* the key of the guidance sort: (level_order.get(x.level, 4), x.number),
\* the number compared as a str
GuidanceLess(c1, c2) ==
    \/ level_order(c1.level) < level_order(c2.level)
    \/ /\ level_order(c1.level) = level_order(c2.level)
       /\ StrLess(c1.number, c2.number)

\* criteria.sort(key=lambda x: (level_order.get(x.level, 4), x.number))
SortByLevelAndNumber(criteria) ==
    StableSort(criteria,
               {pr \in (DOMAIN criteria) \X (DOMAIN criteria) :
                    GuidanceLess(criteria[pr[1]], criteria[pr[2]])})

GuidanceEntry(criterion) ==
    [number |-> criterion.number, title |-> criterion.title,
     level |-> criterion.level, description |-> criterion.description,
     guideline |-> criterion.guideline,
     implementation_priority |->
         CASE criterion.level = A -> "Required - Must implement for basic accessibility"
           [] criterion.level = AA -> "Recommended - Standard accessibility level"
           [] criterion.level = AAA -> "Enhanced - Additional accessibility improvement"
           [] OTHER -> "Unknown"]

GuidanceResult(element_type, context) ==
    LET found == get_criteria_for_techniques(element_type)
    IN  IF found = <<>>
        THEN [element_type |-> element_type, context |-> context,
              message |-> Fmt("No specific guidance found for '{}'", <<element_type>>)]
        ELSE LET criteria == SortByLevelAndNumber(found)
             IN  [element_type |-> element_type, context |-> context,
                  applicable_criteria |-> Len(criteria),
                  guidance |-> [k \in DOMAIN criteria |-> GuidanceEntry(criteria[k])],
                  summary |-> Fmt("Found {} WCAG criteria applicable to {}",
                                  <<IntStr(Len(criteria)), element_type>>)]

\* get_wcag_criterion
CriterionResult(criterion_number) ==
    LET criterion == get_criterion(criterion_number)
    IN  IF criterion = NoneObj
        THEN [error |-> Fmt("WCAG criterion {} not found", <<criterion_number>>)]
        ELSE [number |-> criterion.number, id |-> criterion.id,
              title |-> criterion.title, level |-> criterion.level,
              version |-> Fmt("WCAG {}", <<criterion.version>>),
              description |-> criterion.description,
              principle |-> criterion.principle,
              guideline |-> criterion.guideline,
              exceptions |-> IF criterion.exceptions = None
                             THEN <<>> ELSE criterion.exceptions,
              conformance |->
                  CASE criterion.level = A -> "Must comply for basic accessibility"
                    [] criterion.level = AA ->
                         "Should comply for standard accessibility (recommended minimum)"
                    [] criterion.level = AAA ->
                         "May comply for enhanced accessibility (not required for general compliance)"
                    [] OTHER -> "Unknown level"]

\* WCAGDataLoader.search_criteria: a new list, in index order
search_criteria(search_term) ==
    LET term == Lower(search_term)
    IN  SelectSeq(criteria_by_number,
                  LAMBDA c : \/ Contains(term, Lower(c.title))
                             \/ Contains(term, Lower(c.description))
                             \/ Contains(term, Lower(c.guideline)))

\* criteria[:20] of search_wcag_criteria
SearchLimit == 20

\* description[:200] of search_wcag_criteria
BriefLength == 200

SearchEntry(criterion) ==
    [number |-> criterion.number, title |-> criterion.title,
     level |-> criterion.level, version |-> criterion.version,
     principle |-> criterion.principle, guideline |-> criterion.guideline,
     brief_description |->
         IF Len(criterion.description) > BriefLength
         THEN SubSeq(criterion.description, 1, BriefLength) \o <<".", ".", ".">>
         ELSE criterion.description]

SearchResult(search_term) ==
    LET criteria == search_criteria(search_term)
    IN  IF criteria = <<>>
        THEN [search_term |-> search_term, results |-> <<>>,
              message |-> "No criteria found matching the search term"]
        ELSE LET shown == SubSeq(criteria, 1,
                                 IF Len(criteria) < SearchLimit
                                 THEN Len(criteria) ELSE SearchLimit)
             IN  [search_term |-> search_term,
                  total_results |-> Len(criteria),
                  showing |-> Len(shown),
                  results |-> [k \in DOMAIN shown |-> SearchEntry(shown[k])]]

----------------------------------------------------------------------------
(* The requests of the model *)

\* the elements a parsed document is made of: an image without alt, a link
\* without text, an unlabelled input, an html element without lang, a first
\* level heading, and a clickable third level heading with an unknown role
ElementPool ==
    { Element(<<"i", "m", "g">>, {}, <<>>),
      Element(<<"a">>, {}, <<>>),
      Element(<<"i", "n", "p", "u", "t">>, {}, <<>>),
      Element(<<"h", "t", "m", "l">>, {}, <<>>),
      Element(<<"h", "1">>, {}, <<"T">>),
      Element(<<"h", "3">>,
              {<<"role", <<"b", "o", "g", "u", "s">>>>,
               <<"onclick", <<"g", "o", "(", ")">>>>}, <<"T">>) }

\* the documents: element sequences in document order
Documents == UNION { [1..k -> ElementPool] : k \in 0..MaxElements }

TargetLevels == {A, AA, AAA, <<"a", "a">>, <<"B">>}

ListLevels == {A, AA, AAA, all, ALL, <<"a", "a">>, <<"B">>}

ListPrinciples == {Perceivable, Operable, Understandable, all, ALL,
                   <<"o", "p", "e", "r", "a", "b", "l", "e">>}

ElementTypes == {<<"c", "o", "l", "o", "r">>, <<"C", "o", "l", "o", "r">>,
                 <<"i", "m", "a", "g", "e", "s">>, <<"l", "i", "n", "k", "s">>,
                 <<"f", "o", "c", "u", "s">>, <<"t", "a", "b", "l", "e">>}

CriterionNumbers == {Num3(1, 1, 1), Num3(1, 4, 3), Num3(1, 4, 11), Num3(3, 3, 2)}

SearchTerms == {<<"t", "e", "x", "t">>, <<"H", "U", "E">>, <<"l", "i">>,
                <<"z", "z">>}

----------------------------------------------------------------------------
(* One action per tool call: the handler runs to its return, and the value  *)
(* it returns is held in response until the caller has taken it             *)

check_html_accessibility(elements, include_warnings) ==
    /\ response = NoneObj
    /\ response' = [op |-> "check_html_accessibility",
                    args |-> [elements |-> elements,
                              include_warnings |-> include_warnings],
                    result |-> HtmlResult(elements, include_warnings)]
    /\ UNCHANGED <<data, criteria_by_number, criteria_by_level, criteria_by_principle>>

get_wcag_criterion(criterion_number) ==
    /\ response = NoneObj
    /\ response' = [op |-> "get_wcag_criterion",
                    args |-> [criterion_number |-> criterion_number],
                    result |-> CriterionResult(criterion_number)]
    /\ UNCHANGED <<data, criteria_by_number, criteria_by_level, criteria_by_principle>>

search_wcag_criteria(search_term) ==
    /\ response = NoneObj
    /\ response' = [op |-> "search_wcag_criteria",
                    args |-> [search_term |-> search_term],
                    result |-> SearchResult(search_term)]
    /\ UNCHANGED <<data, criteria_by_number, criteria_by_level, criteria_by_principle>>

\* criteria.sort(...) sorts the list object the selection returned: a list
\* of the catalog is sorted in place
list_wcag_criteria(level, principle) ==
    /\ response = NoneObj
    /\ response' = [op |-> "list_wcag_criteria",
                    args |-> [level |-> level, principle |-> principle],
                    result |-> ListResult(level, principle)]
    /\ LET sel == ListSelection(level, principle)
           sorts == ValidListLevel(level) /\ ValidListPrinciple(principle)
       IN  /\ criteria_by_level' =
                  IF sorts /\ sel.shared = "level"
                  THEN [criteria_by_level EXCEPT
                            ![sel.key] = SortByNumber(sel.criteria)]
                  ELSE criteria_by_level
           /\ criteria_by_principle' =
                  IF sorts /\ sel.shared = "principle"
                  THEN [criteria_by_principle EXCEPT
                            ![sel.key] = SortByNumber(sel.criteria)]
                  ELSE criteria_by_principle
    /\ UNCHANGED <<data, criteria_by_number>>

get_wcag_guidance_for_element(element_type, context) ==
    /\ response = NoneObj
    /\ response' = [op |-> "get_wcag_guidance_for_element",
                    args |-> [element_type |-> element_type, context |-> context],
                    result |-> GuidanceResult(element_type, context)]
    /\ UNCHANGED <<data, criteria_by_number, criteria_by_level, criteria_by_principle>>

validate_wcag_compliance_level(elements, target_level, include_suggestions) ==
    /\ response = NoneObj
    /\ response' = [op |-> "validate_wcag_compliance_level",
                    args |-> [elements |-> elements, target_level |-> target_level,
                              include_suggestions |-> include_suggestions],
                    result |-> ComplianceResult(elements, target_level,
                                                include_suggestions)]
    /\ UNCHANGED <<data, criteria_by_number, criteria_by_level, criteria_by_principle>>

\* the caller takes the returned value
Return ==
    /\ response # NoneObj
    /\ response' = NoneObj
    /\ UNCHANGED <<data, criteria_by_number, criteria_by_level, criteria_by_principle>>

\* a call is taken up when no response is pending
Next ==
    \/ /\ response = NoneObj
       /\ \E elements \in Documents, include_warnings \in BOOLEAN :
              check_html_accessibility(elements, include_warnings)
    \/ /\ response = NoneObj
       /\ \E criterion_number \in CriterionNumbers :
              get_wcag_criterion(criterion_number)
    \/ /\ response = NoneObj
       /\ \E search_term \in SearchTerms :
              search_wcag_criteria(search_term)
    \/ /\ response = NoneObj
       /\ \E level \in ListLevels, principle \in ListPrinciples :
              list_wcag_criteria(level, principle)
    \/ /\ response = NoneObj
       /\ \E element_type \in ElementTypes :
              get_wcag_guidance_for_element(element_type, <<>>)
    \/ /\ response = NoneObj
       /\ \E elements \in Documents, target_level \in TargetLevels,
             include_suggestions \in BOOLEAN :
              validate_wcag_compliance_level(elements, target_level,
                                             include_suggestions)
    \/ Return

Spec == Init /\ [][Next]_vars

----------------------------------------------------------------------------
(* Properties of validate_wcag_compliance_level (evaluateCompliance) *)

\* a compliance report has been returned
IsReport ==
    /\ response # NoneObj
    /\ response.op = "validate_wcag_compliance_level"
    /\ "error" \notin DOMAIN response.result

\* the numbers of the catalog's criteria whose level is one of levels
NumbersAtLevels(levels) ==
    {criteria_by_number[i].number :
        i \in {j \in DOMAIN criteria_by_number : criteria_by_number[j].level \in levels}}

\* the levels a target level covers
LevelsUpTo(level) ==
    CASE level = A -> {A}
      [] level = AA -> {A, AA}
      [] level = AAA -> {A, AA, AAA}

RequiredNumbers(target_level) ==
    LET required_criteria == RequiredCriteria(target_level)
    IN  {required_criteria[i].number : i \in DOMAIN required_criteria}

\* C1: a report has status PASS exactly when its violations list is empty;
\* when the rules find no issue in the document the report says 100.0 percent
\* and PASS; and status PASS goes with 100 percent, FAIL with less (one
\* decimal is kept, so less shows while the required criteria are fewer than
\* 2000 for each violated one)
C1_PassIffNoViolations ==
    IsReport =>
        /\ (response.result.compliance_status = "PASS")
               <=> (response.result.violations = <<>>)
        /\ GroupedIssues(response.args.elements) = <<>>
               => /\ response.result.compliance_percentage = 1000
                  /\ response.result.compliance_status = "PASS"
        /\ (response.result.compliance_status = "PASS")
               <=> (response.result.violated_criteria = 0)
        /\ response.result.compliance_status = "PASS"
               => response.result.compliance_percentage = 1000
        /\ (/\ response.result.compliance_status = "FAIL"
            /\ response.result.total_required_criteria
                   < 2000 * response.result.violated_criteria)
               => response.result.compliance_percentage < 1000

\* a document without any issue was evaluated against a catalog that
\* requires criteria, and passed
C1_Witness ==
    /\ IsReport
    /\ response.args.elements # <<>>
    /\ GroupedIssues(response.args.elements) = <<>>
    /\ response.result.total_required_criteria > 0
    /\ response.result.compliance_status = "PASS"

\* C2: when an issue was found under a criterion number that the catalog
\* does not hold, the call returns a failure and not a report
C2_MissingCriterionIsReported ==
    (/\ response # NoneObj
     /\ response.op = "validate_wcag_compliance_level"
     /\ \E i \in DOMAIN GroupedIssues(response.args.elements) :
            get_criterion(GroupedIssues(response.args.elements)[i].key) = NoneObj)
    => "error" \in DOMAIN response.result

\* C3: the required criteria are those of level A for target A, of levels A
\* and AA for AA, of all three levels for AAA; the sets grow with the target
\* level and so does the count a report gives
C3_RequiredIsCumulative ==
    /\ \A t \in {A, AA, AAA} : RequiredNumbers(t) = NumbersAtLevels(LevelsUpTo(t))
    /\ \A t \in {A, AA, AAA} :
           Len(RequiredCriteria(t)) = Cardinality(NumbersAtLevels(LevelsUpTo(t)))
    /\ RequiredNumbers(A) \subseteq RequiredNumbers(AA)
    /\ RequiredNumbers(AA) \subseteq RequiredNumbers(AAA)
    /\ Len(RequiredCriteria(A)) <= Len(RequiredCriteria(AA))
    /\ Len(RequiredCriteria(AA)) <= Len(RequiredCriteria(AAA))
    /\ IsReport =>
           response.result.total_required_criteria =
               Cardinality(NumbersAtLevels(LevelsUpTo(response.result.target_level)))

\* a report for target AA over a catalog in which each level adds criteria
C3_Witness ==
    /\ IsReport
    /\ response.result.target_level = AA
    /\ RequiredNumbers(A) # RequiredNumbers(AA)
    /\ RequiredNumbers(AA) # RequiredNumbers(AAA)
    /\ response.result.total_required_criteria = Cardinality(RequiredNumbers(AA))

\* the criterion numbers that occur in a violations list
DistinctCriteria(violations) == {violations[i].criterion : i \in DOMAIN violations}

\* x is n/d rounded to the nearest whole number
IsNearest(x, n, d) == 2 * x * d - 2 * n <= d /\ 2 * n - 2 * x * d <= d

\* C4: violated_criteria is the number of distinct criterion numbers among
\* the violations, and the percentage (held in tenths) is
\* (required - violated) / required * 100, and 100 when nothing is required
C4_PercentageFormula ==
    IsReport =>
        /\ response.result.violated_criteria =
               Cardinality(DistinctCriteria(response.result.violations))
        /\ IF response.result.total_required_criteria = 0
           THEN response.result.compliance_percentage = 1000
           ELSE IsNearest(response.result.compliance_percentage,
                          (response.result.total_required_criteria
                              - Cardinality(DistinctCriteria(response.result.violations)))
                          * 1000,
                          response.result.total_required_criteria)

\* two issues on one criterion, out of two required criteria: 50.0 percent
C4_Witness ==
    /\ IsReport
    /\ response.result.total_violations = 2
    /\ response.result.violated_criteria = 1
    /\ response.result.total_required_criteria = 2
    /\ response.result.compliance_percentage = 500

\* the positions of the filed issues whose criterion is required
RequiredIssues(pairs, numbers) == {i \in DOMAIN pairs : pairs[i].key \in numbers}

\* violation v records the issue filed as pair g
Records(v, g) ==
    /\ v.criterion = g.key
    /\ v.issue = g.issue.message
    /\ v.severity = g.issue.severity
    /\ v.element = g.issue.element

\* C5: every issue filed under a required criterion is one violation, and
\* there is no other violation: the counts agree, issue by issue, and every
\* violation's criterion is required for the target level
C5_ViolationsAreRequiredIssues ==
    IsReport =>
        LET pairs == GroupedIssues(response.args.elements)
            numbers == NumbersAtLevels(LevelsUpTo(response.result.target_level))
            violations == response.result.violations
        IN  /\ response.result.total_violations =
                   Cardinality(RequiredIssues(pairs, numbers))
            /\ Len(violations) = response.result.total_violations
            /\ \A k \in DOMAIN violations : violations[k].criterion \in numbers
            /\ \A i \in RequiredIssues(pairs, numbers) :
                   Cardinality({k \in DOMAIN violations : Records(violations[k], pairs[i])})
                   = Cardinality({j \in RequiredIssues(pairs, numbers) :
                                     pairs[j] = pairs[i]})
            /\ \A k \in DOMAIN violations :
                   \E i \in RequiredIssues(pairs, numbers) :
                       Records(violations[k], pairs[i])

\* one issue under a required criterion and one under a criterion of the
\* catalog that the target level does not require
C5_Witness ==
    /\ IsReport
    /\ response.result.total_violations = 1
    /\ \E i \in DOMAIN GroupedIssues(response.args.elements) :
           /\ get_criterion(GroupedIssues(response.args.elements)[i].key) # NoneObj
           /\ GroupedIssues(response.args.elements)[i].key
                  \notin NumbersAtLevels(LevelsUpTo(response.result.target_level))

\* a call of validate_wcag_compliance_level has returned
IsValidateResponse ==
    /\ response # NoneObj
    /\ response.op = "validate_wcag_compliance_level"

\* C6 as stated: the call fails exactly for the target levels that are not
\* one of A, AA, AAA as given
C6_FailsUnlessExactLevel ==
    IsValidateResponse =>
        (("error" \in DOMAIN response.result)
             <=> (response.args.target_level \notin {A, AA, AAA}))

\* C6 amended: the call fails, and returns no report, exactly for the target
\* levels whose upper-cased form is not one of A, AA, AAA; every other level,
\* in whatever letter case, gets a report for its upper-cased form
C6_FailsUnlessLevelInAnyCase ==
    IsValidateResponse =>
        /\ (("error" \in DOMAIN response.result)
                <=> (Upper(response.args.target_level) \notin {A, AA, AAA}))
        /\ "error" \in DOMAIN response.result
               => DOMAIN response.result = {"error"}
        /\ "error" \notin DOMAIN response.result
               => response.result.target_level = Upper(response.args.target_level)
        /\ response.args.target_level \in {A, AA, AAA, <<"a", "a">>}
               => "error" \notin DOMAIN response.result
        /\ response.args.target_level = <<"B">>
               => "error" \in DOMAIN response.result

\* the target level "aa" got a report for AA
C6_Witness ==
    /\ IsReport
    /\ response.args.target_level = <<"a", "a">>
    /\ response.result.target_level = AA

----------------------------------------------------------------------------
(* Properties of check_html_accessibility (runChecks) *)

\* a call of check_html_accessibility has returned
IsHtmlResponse ==
    /\ response # NoneObj
    /\ response.op = "check_html_accessibility"

\* the elements of a document that are touch targets
TouchTargets(elements) ==
    {i \in DOMAIN elements :
        \/ elements[i].tag \in {<<"b", "u", "t", "t", "o", "n">>, <<"a">>}
        \/ Attr(elements[i], "role") \in {<<"b", "u", "t", "t", "o", "n">>,
                                          <<"l", "i", "n", "k">>}}

\* the touch-target-size advisories of an info list
TouchAdvisories(info) ==
    {k \in DOMAIN info :
        /\ info[k].rule_id = "touch-target-size"
        /\ info[k].wcag_level = AAA
        /\ info[k].wcag_criteria = Num3(2, 5, 5)}

\* C7: the issues returned for a document hold a touch-target-size info
\* advisory (level AAA, criterion 2.5.5) for every element that is a button
\* or a link by tag or by role
C7_TouchTargetAdvisoryForEveryTarget ==
    (IsHtmlResponse /\ response.args.include_warnings) =>
        Cardinality(TouchAdvisories(response.result.info))
            >= Cardinality(TouchTargets(response.args.elements))

----------------------------------------------------------------------------
(* Properties of the catalog and its listings *)

\* C8: the by-number index and the per-level and per-principle lists are
\* what loading the data made them, in contents and in order
C8_CatalogAsLoaded ==
    /\ criteria_by_number = ProcessByNumber(data.criteria)
    /\ criteria_by_level =
           IF data.found THEN ProcessByLevel(data.criteria)
           ELSE [l \in {A, AA, AAA} |-> <<>>]
    /\ criteria_by_principle = ProcessByPrinciple(data.criteria)

\* a listing has been returned
IsListing ==
    /\ response # NoneObj
    /\ response.op = "list_wcag_criteria"
    /\ "error" \notin DOMAIN response.result

\* number a does not come after number b in dotted-numeric order
NotAfter(a, b) == ~IntListLess(NumericKey(b), NumericKey(a))

\* the positions of a number in a list of entries
PositionsOf(number, entries) == {k \in DOMAIN entries : entries[k].number = number}

\* C9: a listing is in ascending dotted-numeric order, the components
\* compared as integers: 1.4.3 comes before 1.4.11
C9_ListingInNumericOrder ==
    IsListing =>
        /\ \A i, j \in DOMAIN response.result.criteria :
               i < j => NotAfter(response.result.criteria[i].number,
                                 response.result.criteria[j].number)
        /\ \A i \in PositionsOf(Num3(1, 4, 3), response.result.criteria),
              j \in PositionsOf(Num3(1, 4, 11), response.result.criteria) : i < j
        /\ response.result.total_criteria = Len(response.result.criteria)

\* a listing of 1.4.3 and 1.4.11 from a data file that holds 1.4.11 first
C9_Witness ==
    /\ IsListing
    /\ Len(data.criteria) = 2
    /\ data.criteria[1].number = Num3(1, 4, 11)
    /\ data.criteria[2].number = Num3(1, 4, 3)
    /\ PositionsOf(Num3(1, 4, 3), response.result.criteria) = {1}
    /\ PositionsOf(Num3(1, 4, 11), response.result.criteria) = {2}

\* guidance has been returned
IsGuidance ==
    /\ response # NoneObj
    /\ response.op = "get_wcag_guidance_for_element"
    /\ "guidance" \in DOMAIN response.result

\* C10: in the guidance listing the criteria of one conformance level are in
\* ascending dotted-numeric order, the components compared as integers:
\* 1.4.3 comes before 1.4.11
C10_GuidanceInNumericOrder ==
    IsGuidance =>
        \A i, j \in DOMAIN response.result.guidance :
            (i < j /\ response.result.guidance[i].level = response.result.guidance[j].level)
                => NotAfter(response.result.guidance[i].number,
                            response.result.guidance[j].number)

\* a call of list_wcag_criteria has returned
IsListResponse ==
    /\ response # NoneObj
    /\ response.op = "list_wcag_criteria"

\* C11: list_wcag_criteria returns an error, and no listing, exactly when
\* level is not one of A, AA, AAA, all or principle is not one of Perceivable,
\* Operable, Understandable, Robust, all; both are matched in the same way
C11_ListingIffRecognized ==
    IsListResponse =>
        (("error" \in DOMAIN response.result)
             <=> ~(/\ response.args.level \in {A, AA, AAA, all}
                   /\ response.args.principle \in
                          {Perceivable, Operable, Understandable, Robust, all}))

----------------------------------------------------------------------------
(* Searches over catalogs that hold more criteria than one answer shows *)

MaxSearchCatalog == 22

\* criterion 1.1.i of a generated data file
GeneratedCriterion(i, description) ==
    WCAGCriterion(Num3(1, 1, i), <<"c">>, <<"N", "o">>, A, <<"2", ".", "0">>,
                  description, Perceivable, <<"G">>)

\* data files of n criteria 1.1.1 .. 1.1.n: every m-th one is about icons,
\* the others about text (m = 0: all of them about text)
SearchDataFiles ==
    { [i \in 1..n |->
          GeneratedCriterion(i, IF m > 0 /\ i % m = 0
                                THEN <<"I", "c", "o", "n">>
                                ELSE <<"T", "e", "x", "t">>)]
      : n \in 0..MaxSearchCatalog, m \in 0..2 }

SearchInit ==
    /\ \E cs \in SearchDataFiles :
          /\ data = [found |-> TRUE, criteria |-> cs]
          /\ criteria_by_number = ProcessByNumber(cs)
          /\ criteria_by_level = ProcessByLevel(cs)
          /\ criteria_by_principle = ProcessByPrinciple(cs)
    /\ response = NoneObj

SearchNext ==
    \/ /\ response = NoneObj
       /\ \E search_term \in SearchTerms :
              search_wcag_criteria(search_term)
    \/ Return

SearchSpec == SearchInit /\ [][SearchNext]_vars

\* a call of search_wcag_criteria has returned
IsSearchResponse ==
    /\ response # NoneObj
    /\ response.op = "search_wcag_criteria"

\* the numbers of the catalog's criteria whose title, description or
\* guideline holds the term, letter case apart
Matching(term) ==
    {criteria_by_number[i].number :
        i \in {j \in DOMAIN criteria_by_number :
                  \/ Contains(Lower(term), Lower(criteria_by_number[j].title))
                  \/ Contains(Lower(term), Lower(criteria_by_number[j].description))
                  \/ Contains(Lower(term), Lower(criteria_by_number[j].guideline))}}

\* C12: the results of a search are all and only the criteria whose title,
\* description or guideline holds the term, however many they are
C12_SearchReturnsEveryMatch ==
    IsSearchResponse =>
        /\ {response.result.results[k].number : k \in DOMAIN response.result.results}
               = Matching(response.args.search_term)
        /\ Len(response.result.results)
               = Cardinality(Matching(response.args.search_term))

----------------------------------------------------------------------------
(* Calls of the rule checkers of accessibility_rules.py, on element dicts   *)
(* of any shape                                                             *)

MaxHeadings == 3

\* the longest list of css rules handed to check_focus_visible
MaxCssRules == 2

\* element.get("attributes", {}).get(...) raises AttributeError when the
\* value of "attributes" is None
AttributesRaise(element) == element.attributes = None

\* check_img_alt_text raises: the attributes are None, or alt.strip() is
\* called on a value that is no str
check_img_alt_text_raises(html_element) ==
    /\ html_element.tag = <<"i", "m", "g">>
    /\ \/ AttributesRaise(html_element)
       \/ /\ Attr(html_element, "alt") # None
          /\ ~IsStr(Attr(html_element, "alt"))

\* check_form_labels raises
check_form_labels_raises(form_element) ==
    /\ form_element.tag \in {<<"i", "n", "p", "u", "t">>, <<"s", "e", "l", "e", "c", "t">>,
                             <<"t", "e", "x", "t", "a", "r", "e", "a">>}
    /\ AttributesRaise(form_element)

\* check_link_text raises: link_element.get("text", "").strip() on a value
\* that is no str, or the attributes are None
check_link_text_raises(link_element) ==
    /\ link_element.tag = <<"a">>
    /\ \/ ~IsStr(link_element.text)
       \/ AttributesRaise(link_element)

\* check_language_attribute raises
check_language_attribute_raises(html_element) ==
    /\ html_element.tag = <<"h", "t", "m", "l">>
    /\ AttributesRaise(html_element)

\* check_aria_roles, check_keyboard_accessibility and check_touch_target_size
\* read the attributes of every element
check_aria_roles_raises(element) == AttributesRaise(element)

check_keyboard_accessibility_raises(element) == AttributesRaise(element)

check_touch_target_size_raises(element) == AttributesRaise(element)

\* what a call comes to: an exception, or the value returned
Raised == [raised |-> TRUE]

Returned(value) == [raised |-> FALSE, value |-> value]

\* the tags of the element dicts handed to the per-element checkers
RuleTags ==
    { <<"i", "m", "g">>, <<"a">>, <<"i", "n", "p", "u", "t">>,
      <<"h", "t", "m", "l">>, <<"d", "i", "v">>, None }

\* their attributes: None, or a dict
RuleAttributes ==
    {None} \cup
    { Element(<<>>, attrs, <<>>).attributes :
        attrs \in { {},
                    {<<"alt", <<>>>>},
                    {<<"alt", <<" ">>>>},
                    {<<"alt", <<"x">>>>},
                    {<<"alt", <<>>>>,
                     <<"role", <<"p", "r", "e", "s", "e", "n", "t", "a", "t", "i", "o", "n">>>>},
                    {<<"alt", Number>>},
                    {<<"role", <<"b", "o", "g", "u", "s">>>>},
                    {<<"role", <<"b", "u", "t", "t", "o", "n">>>>},
                    {<<"role", Number>>},
                    {<<"role", <<>>>>},
                    {<<"aria-label", <<"x">>>>},
                    {<<"aria-label", <<>>>>},
                    {<<"id", <<>>>>},
                    {<<"id", <<"x">>>>},
                    {<<"type", <<"s", "u", "b", "m", "i", "t">>>>},
                    {<<"lang", <<"e", "n">>>>},
                    {<<"onclick", <<"g", "o", "(", ")">>>>},
                    {<<"onclick", <<"g", "o", "(", ")">>>>, <<"tabindex", <<"0">>>>} } }

\* their text: a str or None
RuleTexts == { <<>>, <<" ">>, <<"H", "e", "r", "e", " ">>, <<"T">>, None }

RuleElements == [tag : RuleTags, attributes : RuleAttributes, text : RuleTexts]

\* the tags of the dicts handed to check_heading_hierarchy
HeadingTagPool ==
    { <<"h", "1">>, <<"h", "2">>, <<"h", "3">>, <<"h", "4">>,
      <<"h", "r">>, <<"h", "1", "0">>, <<>>, None }

HeadingLists ==
    UNION { [1..k -> {Element(tag, {}, <<"T">>) : tag \in HeadingTagPool}]
            : k \in 0..MaxHeadings }

Call_check_img_alt_text(html_element) ==
    /\ response = NoneObj
    /\ response' = [op |-> "check_img_alt_text",
                    args |-> [element |-> html_element],
                    result |-> IF check_img_alt_text_raises(html_element) THEN Raised
                               ELSE Returned(check_img_alt_text(html_element))]
    /\ UNCHANGED <<data, criteria_by_number, criteria_by_level, criteria_by_principle>>

Call_check_heading_hierarchy(headings) ==
    /\ response = NoneObj
    /\ response' = [op |-> "check_heading_hierarchy",
                    args |-> [headings |-> headings],
                    result |-> IF check_heading_hierarchy(headings).raised THEN Raised
                               ELSE Returned(check_heading_hierarchy(headings).issues)]
    /\ UNCHANGED <<data, criteria_by_number, criteria_by_level, criteria_by_principle>>

Call_check_form_labels(form_element) ==
    /\ response = NoneObj
    /\ response' = [op |-> "check_form_labels",
                    args |-> [element |-> form_element],
                    result |-> IF check_form_labels_raises(form_element) THEN Raised
                               ELSE Returned(check_form_labels(form_element))]
    /\ UNCHANGED <<data, criteria_by_number, criteria_by_level, criteria_by_principle>>

Call_check_link_text(link_element) ==
    /\ response = NoneObj
    /\ response' = [op |-> "check_link_text",
                    args |-> [element |-> link_element],
                    result |-> IF check_link_text_raises(link_element) THEN Raised
                               ELSE Returned(check_link_text(link_element))]
    /\ UNCHANGED <<data, criteria_by_number, criteria_by_level, criteria_by_principle>>

Call_check_language_attribute(html_element) ==
    /\ response = NoneObj
    /\ response' = [op |-> "check_language_attribute",
                    args |-> [element |-> html_element],
                    result |-> IF check_language_attribute_raises(html_element) THEN Raised
                               ELSE Returned(check_language_attribute(html_element))]
    /\ UNCHANGED <<data, criteria_by_number, criteria_by_level, criteria_by_principle>>

Call_check_aria_roles(element) ==
    /\ response = NoneObj
    /\ response' = [op |-> "check_aria_roles",
                    args |-> [element |-> element],
                    result |-> IF check_aria_roles_raises(element) THEN Raised
                               ELSE Returned(check_aria_roles(element))]
    /\ UNCHANGED <<data, criteria_by_number, criteria_by_level, criteria_by_principle>>

Call_check_keyboard_accessibility(element) ==
    /\ response = NoneObj
    /\ response' = [op |-> "check_keyboard_accessibility",
                    args |-> [element |-> element],
                    result |-> IF check_keyboard_accessibility_raises(element) THEN Raised
                               ELSE Returned(check_keyboard_accessibility(element))]
    /\ UNCHANGED <<data, criteria_by_number, criteria_by_level, criteria_by_principle>>

Call_check_touch_target_size(element) ==
    /\ response = NoneObj
    /\ response' = [op |-> "check_touch_target_size",
                    args |-> [element |-> element],
                    result |-> IF check_touch_target_size_raises(element) THEN Raised
                               ELSE Returned(check_touch_target_size(element))]
    /\ UNCHANGED <<data, criteria_by_number, criteria_by_level, criteria_by_principle>>

\* the checkers need no catalog
\* the css rules handed to check_focus_visible
CssRulePool ==
    { <<"a", "{", "o", "u", "t", "l", "i", "n", "e", ":", " ", "n", "o", "n", "e", "}">>,
      <<"a", "{", "o", "u", "t", "l", "i", "n", "e", ":", " ", "0", ";", "b", "o", "r", "d", "e", "r", ":", " ", "1", "p", "x", "}">>,
      <<"a", "{", "o", "u", "t", "l", "i", "n", "e", ":", " ", "0", "}">>,
      <<"p", "{", "c", "o", "l", "o", "r", ":", " ", "r", "e", "d", "}">> }

CssRuleLists == UNION { [1..k -> CssRulePool] : k \in 0..MaxCssRules }

Call_check_color_contrast ==
    /\ response = NoneObj
    /\ response' = [op |-> "AccessibilityRules.check_color_contrast",
                    args |-> <<>>,
                    result |-> Returned(AccessibilityRules_check_color_contrast)]
    /\ UNCHANGED <<data, criteria_by_number, criteria_by_level, criteria_by_principle>>

Call_check_focus_visible(css_rules) ==
    /\ response = NoneObj
    /\ response' = [op |-> "check_focus_visible",
                    args |-> [css_rules |-> css_rules],
                    result |-> Returned(check_focus_visible(css_rules))]
    /\ UNCHANGED <<data, criteria_by_number, criteria_by_level, criteria_by_principle>>

RulesInit ==
    /\ data = [found |-> FALSE, criteria |-> <<>>]
    /\ criteria_by_number = <<>>
    /\ criteria_by_level = [l \in {A, AA, AAA} |-> <<>>]
    /\ criteria_by_principle = << >>
    /\ response = NoneObj

RulesNext ==
    \/ \E element \in RuleElements : Call_check_img_alt_text(element)
    \/ \E headings \in HeadingLists : Call_check_heading_hierarchy(headings)
    \/ \E element \in RuleElements : Call_check_form_labels(element)
    \/ \E element \in RuleElements : Call_check_link_text(element)
    \/ \E element \in RuleElements : Call_check_language_attribute(element)
    \/ \E element \in RuleElements : Call_check_aria_roles(element)
    \/ \E element \in RuleElements : Call_check_keyboard_accessibility(element)
    \/ \E element \in RuleElements : Call_check_touch_target_size(element)
    \/ Call_check_color_contrast
    \/ \E css_rules \in CssRuleLists : Call_check_focus_visible(css_rules)
    \/ Return

RulesSpec == RulesInit /\ [][RulesNext]_vars

----------------------------------------------------------------------------
(* Properties of check_heading_hierarchy *)

\* a call of check_heading_hierarchy has returned a list of issues
IsHeadingResult ==
    /\ response # NoneObj
    /\ response.op = "check_heading_hierarchy"
    /\ ~response.result.raised

\* the tags of a list of headings
TagsOf(headings) == [i \in DOMAIN headings |-> headings[i].tag]

\* a tag that gives a level: h and one digit
IsLevelTag(tag) == IsStr(tag) /\ Len(tag) = 2 /\ tag[1] = "h" /\ IsDigit(tag[2])

LevelOf(tag) == ParseInt(<<tag[2]>>)

\* the level of the nearest heading before position i that gives one, or 0
PreviousLevel(headings, i) ==
    LET before == {j \in 1..(i - 1) : IsLevelTag(headings[j].tag)}
    IN  IF before = {} THEN 0
        ELSE LevelOf(headings[CHOOSE j \in before : \A k \in before : k <= j].tag)

\* the positions of the headings whose level is more than one above the
\* previous level
SkippingPositions(headings) ==
    {i \in DOMAIN headings :
        /\ IsLevelTag(headings[i].tag)
        /\ PreviousLevel(headings, i) > 0
        /\ LevelOf(headings[i].tag) > PreviousLevel(headings, i) + 1}

\* the k-th smallest member of a set of positions
KthPosition(positions, k) ==
    CHOOSE i \in positions : Cardinality({j \in positions : j < i}) = k - 1

IssuesOfRule(issues, rule_id) == SelectSeq(issues, LAMBDA issue : issue.rule_id = rule_id)

\* C13: the heading-skipped-level errors of a returned list are, in order,
\* one for each heading whose level L exceeds the previous level P > 0 by
\* more than one; its message names the jump from hP to hL and its
\* suggestion h(P+1); [h1, h3] gives exactly one, from h1 to h3
C13_SkippedLevels ==
    IsHeadingResult =>
        LET headings == response.args.headings
            skipped == IssuesOfRule(response.result.value, "heading-skipped-level")
            positions == SkippingPositions(headings)
        IN  /\ Len(skipped) = Cardinality(positions)
            /\ \A k \in DOMAIN skipped :
                   LET i == KthPosition(positions, k)
                       P == PreviousLevel(headings, i)
                       L == LevelOf(headings[i].tag)
                   IN  /\ skipped[k].severity = "error"
                       /\ skipped[k].element = headings[i]
                       /\ skipped[k].message =
                              Fmt("Heading level skipped from h{} to h{}",
                                  <<IntStr(P), IntStr(L)>>)
                       /\ skipped[k].suggestion =
                              Fmt("Use h{} instead of h{}", <<IntStr(P + 1), IntStr(L)>>)
            /\ (\A i \in DOMAIN headings :
                    IsLevelTag(headings[i].tag)
                        => LevelOf(headings[i].tag) <= PreviousLevel(headings, i) + 1)
                   => skipped = <<>>
            /\ TagsOf(headings) = <<<<"h", "1">>, <<"h", "3">>>>
                   => /\ Len(skipped) = 1
                      /\ skipped[1].message.args = <<<<"1">>, <<"3">>>>

\* [h1, h3, h4] was checked: one skipped level, at h3, and none at h4
C13_Witness ==
    /\ IsHeadingResult
    /\ TagsOf(response.args.headings) = <<<<"h", "1">>, <<"h", "3">>, <<"h", "4">>>>
    /\ Len(IssuesOfRule(response.result.value, "heading-skipped-level")) = 1

\* C14: a returned list holds the heading-no-h1 warning once when the
\* headings are not empty and the first one's tag is not h1, and not at all
\* otherwise
C14_NoH1Once ==
    IsHeadingResult =>
        LET headings == response.args.headings
            no_h1 == IssuesOfRule(response.result.value, "heading-no-h1")
        IN  /\ Len(no_h1) =
                   IF headings # <<>> /\ headings[1].tag # <<"h", "1">> THEN 1 ELSE 0
            /\ \A k \in DOMAIN no_h1 :
                   /\ no_h1[k].severity = "warning"
                   /\ no_h1[k].wcag_level = A
                   /\ no_h1[k].wcag_criteria = Num3(1, 3, 1)

\* [h2, h3, h2] was checked: one warning, though no heading is an h1
C14_Witness ==
    /\ IsHeadingResult
    /\ TagsOf(response.args.headings) = <<<<"h", "2">>, <<"h", "3">>, <<"h", "2">>>>
    /\ Len(IssuesOfRule(response.result.value, "heading-no-h1")) = 1

----------------------------------------------------------------------------
(* Properties of the per-element checkers *)

\* a call of check_img_alt_text has returned
IsImgResult ==
    /\ response # NoneObj
    /\ response.op = "check_img_alt_text"
    /\ ~response.result.raised

\* a str of white space only
IsBlank(text) == \A i \in DOMAIN text : text[i] \in Whitespace

\* C15: for an img, check_img_alt_text returns img-alt-missing (error) when
\* there is no alt, img-alt-empty (warning) when alt is blank and the role is
\* not presentation, and no issue when alt is blank and the role is
\* presentation or when alt is not blank; for any other element, no issue
C15_ImgAltCases ==
    IsImgResult =>
        LET element == response.args.element
            issue == response.result.value
            alt == element.attributes["alt"]
            role == element.attributes["role"]
        IN  IF element.tag # <<"i", "m", "g">> THEN issue = NoneObj
            ELSE IF alt = None
            THEN /\ issue # NoneObj
                 /\ issue.rule_id = "img-alt-missing"
                 /\ issue.severity = "error"
            ELSE IF /\ IsBlank(alt)
                    /\ role # <<"p", "r", "e", "s", "e", "n", "t", "a", "t", "i", "o", "n">>
            THEN /\ issue # NoneObj
                 /\ issue.rule_id = "img-alt-empty"
                 /\ issue.severity = "warning"
            ELSE issue = NoneObj

\* an img with alt="" and role="presentation" was checked: no issue
C15_Witness ==
    /\ IsImgResult
    /\ response.args.element.tag = <<"i", "m", "g">>
    /\ response.args.element.attributes["alt"] = <<>>
    /\ response.args.element.attributes["role"] =
           <<"p", "r", "e", "s", "e", "n", "t", "a", "t", "i", "o", "n">>
    /\ response.result.value = NoneObj

\* a call of a rule checker has come to its end
IsRuleCall ==
    /\ response # NoneObj
    /\ "raised" \in DOMAIN response.result

\* C19: no call of a rule checker ends with an exception, whatever the
\* shape of the element
C19_CheckersNeverRaise == IsRuleCall => ~response.result.raised

\* C20: for [h1, t, h3] with t not h and one digit, check_heading_hierarchy
\* returns, with exactly one heading-skipped-level issue, from h1 to h3
C20_MalformedTagIgnored ==
    (/\ response # NoneObj
     /\ response.op = "check_heading_hierarchy"
     /\ Len(response.args.headings) = 3
     /\ response.args.headings[1].tag = <<"h", "1">>
     /\ ~IsLevelTag(response.args.headings[2].tag)
     /\ response.args.headings[3].tag = <<"h", "3">>)
    => /\ ~response.result.raised
       /\ Len(IssuesOfRule(response.result.value, "heading-skipped-level")) = 1
       /\ IssuesOfRule(response.result.value, "heading-skipped-level")[1].message.args
              = <<<<"1">>, <<"3">>>>

----------------------------------------------------------------------------
(* contrast_calculator.py, and check_color_contrast of server.py *)

\* str.lstrip('#')
RECURSIVE LStripHash(_)
LStripHash(s) == IF Len(s) > 0 /\ s[1] = "#" THEN LStripHash(Tail(s)) ELSE s

HexLower == <<"0", "1", "2", "3", "4", "5", "6", "7", "8", "9",
              "a", "b", "c", "d", "e", "f">>

HexUpper == <<"0", "1", "2", "3", "4", "5", "6", "7", "8", "9",
              "A", "B", "C", "D", "E", "F">>

IsHexDigit(c) == \E i \in 1..16 : HexLower[i] = c \/ HexUpper[i] = c

HexVal(c) == (CHOOSE i \in 1..16 : HexLower[i] = c \/ HexUpper[i] = c) - 1

\* hex_color[i:i+2]
Slice2(s, i) ==
    SubSeq(s, i + 1, IF i + 2 <= Len(s) THEN i + 2 ELSE Len(s))

\* the digits int(s, 16) reads in a slice of up to two characters: white
\* space around them and one sign before them are allowed
Int16Digits(s) ==
    LET body == Strip(s)
    IN  IF Len(body) > 0 /\ body[1] \in {"+", "-"} THEN Tail(body) ELSE body

\* int(s, 16) raises ValueError
Int16Raises(s) ==
    \/ Int16Digits(s) = <<>>
    \/ \E i \in DOMAIN Int16Digits(s) : ~IsHexDigit(Int16Digits(s)[i])

RECURSIVE HexNumber(_)
HexNumber(ds) ==
    IF Len(ds) = 0 THEN 0
    ELSE 16 * HexNumber(SubSeq(ds, 1, Len(ds) - 1)) + HexVal(ds[Len(ds)])

\* int(s, 16)
Int16(s) ==
    IF Len(Strip(s)) > 0 /\ Strip(s)[1] = "-"
    THEN 0 - HexNumber(Int16Digits(s))
    ELSE HexNumber(Int16Digits(s))

\* hex_to_rgb raises ValueError
hex_to_rgb_raises(hex_color) ==
    \E i \in {0, 2, 4} : Int16Raises(Slice2(LStripHash(hex_color), i))

hex_to_rgb(hex_color) ==
    [k \in 1..3 |-> Int16(Slice2(LStripHash(hex_color), 2 * (k - 1)))]

\* linearize(c) for c = 0 .. 255, in thousandths, to the nearest one
LinearizeTable ==
    <<
       0, 0, 1, 1, 1, 2, 2, 2, 2, 3, 3, 3, 4, 4, 4, 5,
       5, 6, 6, 7, 7, 7, 8, 9, 9, 10, 10, 11, 12, 12, 13, 14,
       14, 15, 16, 17, 18, 19, 19, 20, 21, 22, 23, 24, 25, 26, 27, 28,
       30, 31, 32, 33, 34, 36, 37, 38, 40, 41, 42, 44, 45, 47, 48, 50,
       51, 53, 54, 56, 58, 60, 61, 63, 65, 67, 68, 70, 72, 74, 76, 78,
       80, 82, 84, 87, 89, 91, 93, 95, 98, 100, 102, 105, 107, 109, 112, 114,
       117, 120, 122, 125, 127, 130, 133, 136, 138, 141, 144, 147, 150, 153, 156, 159,
       162, 165, 168, 171, 175, 178, 181, 184, 188, 191, 195, 198, 202, 205, 209, 212,
       216, 220, 223, 227, 231, 235, 238, 242, 246, 250, 254, 258, 262, 266, 270, 275,
       279, 283, 287, 292, 296, 301, 305, 309, 314, 319, 323, 328, 332, 337, 342, 347,
       352, 356, 361, 366, 371, 376, 381, 386, 392, 397, 402, 407, 413, 418, 423, 429,
       434, 440, 445, 451, 456, 462, 468, 474, 479, 485, 491, 497, 503, 509, 515, 521,
       527, 533, 539, 546, 552, 558, 565, 571, 578, 584, 591, 597, 604, 610, 617, 624,
       631, 638, 644, 651, 658, 665, 672, 680, 687, 694, 701, 708, 716, 723, 730, 738,
       745, 753, 761, 768, 776, 784, 791, 799, 807, 815, 823, 831, 839, 847, 855, 863,
       871, 880, 888, 896, 905, 913, 922, 930, 939, 947, 956, 965, 973, 982, 991, 1000
    >>

\* linearize(c), in thousandths; a negative c is below the 0.03928 knee
linearize(c) ==
    IF c < 0 THEN 0 - ((((0 - c) * 100000) + 164730) \div 329460)
    ELSE LinearizeTable[c + 1]

\* rgb_to_relative_luminance, in units of 1/10000000
rgb_to_relative_luminance(r, g, b) ==
    2126 * linearize(r) + 7152 * linearize(g) + 722 * linearize(b)

\* the luminance of a colour
LuminanceOf(color) ==
    rgb_to_relative_luminance(hex_to_rgb(color)[1], hex_to_rgb(color)[2],
                              hex_to_rgb(color)[3])

\* variant: the first luminance taken as the lighter one
LighterIsFirst(lum1, lum2) == lum1

\* max(lum1, lum2)
Lighter(lum1, lum2) == IF lum2 > lum1 THEN lum2 ELSE lum1

\* min(lum1, lum2)
Darker(lum1, lum2) == IF lum2 < lum1 THEN lum2 ELSE lum1

\* calculate_contrast_ratio: (lighter + 0.05) / (darker + 0.05), as the
\* fraction [num, den]
calculate_contrast_ratio(color1, color2) ==
    [num |-> Lighter(LuminanceOf(color1), LuminanceOf(color2)) + 500000,
     den |-> Darker(LuminanceOf(color1), LuminanceOf(color2)) + 500000]

calculate_contrast_ratio_raises(color1, color2) ==
    hex_to_rgb_raises(color1) \/ hex_to_rgb_raises(color2)

\* round(x, 2) of the fraction num/den > 0, in hundredths
RoundHundredths(num, den) ==
    LET q == (100 * num) \div den
        r == (100 * num) % den
    IN  IF 2 * r < den THEN q
        ELSE IF 2 * r > den THEN q + 1
        ELSE IF q % 2 = 0 THEN q ELSE q + 1

\* variant: bold text is not looked at
IsLargeTextBySizeOnly(font_size, is_bold) == font_size >= 18

\* font_size >= 18 or (font_size >= 14 and is_bold)
IsLargeText(font_size, is_bold) == font_size >= 18 \/ (font_size >= 14 /\ is_bold)

\* the required ratios, in tenths
aa_threshold(is_large_text) == IF is_large_text THEN 30 ELSE 45

aaa_threshold(is_large_text) == IF is_large_text THEN 45 ELSE 70

\* ratio >= threshold, for the fraction ratio and a threshold in tenths
AtLeast(ratio, threshold) == 10 * ratio.num >= threshold * ratio.den

\* the status strs, without their mark
PassStatus(passes) == IF passes THEN "PASS" ELSE "FAIL"

evaluate_contrast(foreground, background, font_size, is_bold) ==
    LET ratio == calculate_contrast_ratio(foreground, background)
        is_large_text == IsLargeText(font_size, is_bold)
        aa_pass == AtLeast(ratio, aa_threshold(is_large_text))
        aaa_pass == AtLeast(ratio, aaa_threshold(is_large_text))
    IN  [foreground |-> foreground,
         background |-> background,
         contrast_ratio |-> RoundHundredths(ratio.num, ratio.den),
         font_size |-> font_size,
         is_bold |-> is_bold,
         is_large_text |-> is_large_text,
         wcag_aa |-> [required |-> aa_threshold(is_large_text),
                      passes |-> aa_pass, status |-> PassStatus(aa_pass)],
         wcag_aaa |-> [required |-> aaa_threshold(is_large_text),
                       passes |-> aaa_pass, status |-> PassStatus(aaa_pass)],
         overall_grade |-> IF aaa_pass THEN "AAA" ELSE IF aa_pass THEN "AA" ELSE "FAIL"]

\* the value check_color_contrast of server.py returns
ContrastGuidance(foreground, background, font_size, is_bold) ==
    LET is_large_text == font_size >= 18 \/ (font_size >= 14 /\ is_bold)
        kind == IF is_large_text THEN "Large text" ELSE "Normal text"
    IN  [foreground |-> foreground,
         background |-> background,
         font_size |-> font_size,
         is_bold |-> is_bold,
         is_large_text |-> is_large_text,
         wcag_requirements |->
             [AA |-> [required_ratio |-> IF is_large_text THEN 30 ELSE 45,
                      description |-> Fmt("{} requires {}:1 contrast ratio",
                                          <<kind, IF is_large_text THEN 30 ELSE 45>>)],
              AAA |-> [required_ratio |-> IF is_large_text THEN 45 ELSE 70,
                       description |-> Fmt("{} requires {}:1 contrast ratio for AAA",
                                           <<kind, IF is_large_text THEN 45 ELSE 70>>)]],
         recommendation |->
             "Use a color contrast checker tool to verify the actual contrast ratio"]

\* the colour strs of the requests: well formed ones, with and without the
\* leading #, and malformed ones (too short, too long, two #, signs, no
\* hexadecimal digits, empty)
ColorPool ==
    { <<"#", "0", "0", "0", "0", "0", "0">>,
      <<"#", "f", "f", "f", "f", "f", "f">>,
      <<"#", "7", "6", "7", "6", "7", "6">>,
      <<"#", "8", "0", "8", "0", "8", "0">>,
      <<"F", "F", "F", "F", "F", "F">>,
      <<"#", "0", "0", "0", "0", "0">>,
      <<"#", "0", "0", "0", "0", "0", "0", "0">>,
      <<"#", "#", "0", "0", "0", "0", "0", "0">>,
      <<"+", "0", "+", "0", "+", "0">>,
      <<"#", "g", "g", "g">>,
      <<>> }

\* font sizes, in pixels
FontSizes == {12, 14, 16, 18}

\* the tool check_color_contrast of server.py
check_color_contrast(foreground, background, font_size, is_bold) ==
    /\ response = NoneObj
    /\ response' = [op |-> "check_color_contrast",
                    args |-> [foreground |-> foreground, background |-> background,
                              font_size |-> font_size, is_bold |-> is_bold],
                    result |-> ContrastGuidance(foreground, background,
                                                font_size, is_bold)]
    /\ UNCHANGED <<data, criteria_by_number, criteria_by_level, criteria_by_principle>>

Call_evaluate_contrast(foreground, background, font_size, is_bold) ==
    /\ response = NoneObj
    /\ response' = [op |-> "evaluate_contrast",
                    args |-> [foreground |-> foreground, background |-> background,
                              font_size |-> font_size, is_bold |-> is_bold],
                    result |-> IF calculate_contrast_ratio_raises(foreground, background)
                               THEN Raised
                               ELSE Returned(evaluate_contrast(foreground, background,
                                                               font_size, is_bold))]
    /\ UNCHANGED <<data, criteria_by_number, criteria_by_level, criteria_by_principle>>

Call_calculate_contrast_ratio(color1, color2) ==
    /\ response = NoneObj
    /\ response' = [op |-> "calculate_contrast_ratio",
                    args |-> [color1 |-> color1, color2 |-> color2],
                    result |-> IF calculate_contrast_ratio_raises(color1, color2)
                               THEN Raised
                               ELSE Returned(calculate_contrast_ratio(color1, color2))]
    /\ UNCHANGED <<data, criteria_by_number, criteria_by_level, criteria_by_principle>>

\* contrast needs no catalog
ContrastInit ==
    /\ data = [found |-> FALSE, criteria |-> <<>>]
    /\ criteria_by_number = <<>>
    /\ criteria_by_level = [l \in {A, AA, AAA} |-> <<>>]
    /\ criteria_by_principle = << >>
    /\ response = NoneObj

ContrastNext ==
    \/ \E foreground \in ColorPool, background \in ColorPool,
          font_size \in FontSizes, is_bold \in BOOLEAN :
           check_color_contrast(foreground, background, font_size, is_bold)
    \/ \E foreground \in ColorPool, background \in ColorPool,
          font_size \in FontSizes, is_bold \in BOOLEAN :
           Call_evaluate_contrast(foreground, background, font_size, is_bold)
    \/ \E color1 \in ColorPool, color2 \in ColorPool :
           Call_calculate_contrast_ratio(color1, color2)
    \/ Return

ContrastSpec == ContrastInit /\ [][ContrastNext]_vars

----------------------------------------------------------------------------
(* Properties of the contrast calculator *)

\* a colour str that is not six hexadecimal digits after one optional #
IsMalformedColor(color) ==
    LET digits == IF Len(color) > 0 /\ color[1] = "#" THEN Tail(color) ELSE color
    IN  \/ Len(digits) # 6
        \/ \E i \in DOMAIN digits : ~IsHexDigit(digits[i])

\* a contrast check has come to its end
IsContrastCheck ==
    /\ response # NoneObj
    /\ response.op \in {"check_color_contrast", "evaluate_contrast"}

\* C16: a contrast check of a malformed colour str ends with a parsing
\* error and returns no result
C16_MalformedColorFails ==
    (/\ IsContrastCheck
     /\ \/ IsMalformedColor(response.args.foreground)
        \/ IsMalformedColor(response.args.background))
    => /\ "raised" \in DOMAIN response.result
       /\ response.result.raised

\* a contrast ratio has been returned
IsRatio ==
    /\ response # NoneObj
    /\ response.op = "calculate_contrast_ratio"
    /\ ~response.result.raised

\* C17: the contrast ratio of two colours is the ratio of the same two
\* colours in the other order
C17_RatioSymmetric ==
    IsRatio =>
        /\ ~calculate_contrast_ratio_raises(response.args.color2, response.args.color1)
        /\ response.result.value =
               calculate_contrast_ratio(response.args.color2, response.args.color1)
        /\ response.result.value.num >= response.result.value.den

\* the ratio of black on white and of white on black: 21
C17_Witness ==
    /\ IsRatio
    /\ response.args.color1 = <<"#", "0", "0", "0", "0", "0", "0">>
    /\ response.args.color2 = <<"#", "f", "f", "f", "f", "f", "f">>
    /\ response.result.value = [num |-> 10500000, den |-> 500000]

\* an evaluation has been returned
IsEvaluation ==
    /\ response # NoneObj
    /\ response.op = "evaluate_contrast"
    /\ ~response.result.raised

\* C18: text is large from 18 px, or from 14 px when bold; the ratio needed
\* is 3.0 (AA) and 4.5 (AAA) for large text, 4.5 and 7.0 for other text; a
\* tier passes when the ratio reaches what it needs, and the grade is AAA
\* when AAA passes, else AA when AA passes, else FAIL
C18_Grading ==
    IsEvaluation =>
        LET args == response.args
            result == response.result.value
            ratio == calculate_contrast_ratio(args.foreground, args.background)
            large == args.font_size >= 18 \/ (args.font_size >= 14 /\ args.is_bold)
            aa == IF large THEN 30 ELSE 45
            aaa == IF large THEN 45 ELSE 70
        IN  /\ result.is_large_text = large
            /\ result.wcag_aa.required = aa
            /\ result.wcag_aaa.required = aaa
            /\ result.wcag_aa.passes = (10 * ratio.num >= aa * ratio.den)
            /\ result.wcag_aaa.passes = (10 * ratio.num >= aaa * ratio.den)
            /\ result.overall_grade =
                   IF 10 * ratio.num >= aaa * ratio.den THEN "AAA"
                   ELSE IF 10 * ratio.num >= aa * ratio.den THEN "AA"
                   ELSE "FAIL"

\* #808080 on white, 3.95, in bold 14 px text: large, and grade AA
C18_Witness ==
    /\ IsEvaluation
    /\ response.args.foreground = <<"#", "8", "0", "8", "0", "8", "0">>
    /\ response.args.background = <<"#", "f", "f", "f", "f", "f", "f">>
    /\ response.args.font_size = 14
    /\ response.args.is_bold
    /\ response.result.value.is_large_text
    /\ response.result.value.contrast_ratio = 395
    /\ response.result.value.overall_grade = "AA"

(***************************************************************************)
(* The per-element rules and the attributes they read                      *)
(***************************************************************************)

\* a call of one checker that came back with a value
IsReturnOf(op) ==
    /\ response # NoneObj
    /\ response.op = op
    /\ ~response.result.raised

FormTags ==
    {<<"i", "n", "p", "u", "t">>, <<"s", "e", "l", "e", "c", "t">>,
     <<"t", "e", "x", "t", "a", "r", "e", "a">>}

SkippedInputTypes ==
    {<<"s", "u", "b", "m", "i", "t">>, <<"b", "u", "t", "t", "o", "n">>,
     <<"r", "e", "s", "e", "t">>, <<"h", "i", "d", "d", "e", "n">>}

EffectiveType(e) ==
    IF Attr(e, "type") = None THEN <<"t", "e", "x", "t">> ELSE Attr(e, "type")

\* C21: check_form_labels yields form-no-label (error, A, 3.3.2) exactly when
\* the tag is input, select or textarea, the effective type is none of
\* submit, button, reset, hidden, and none of id, aria-label, aria-labelledby,
\* title is present; an element carrying one of the four, whatever its value,
\* yields no issue
C21_FormLabelIffNoneOfFourPresent ==
    IsReturnOf("check_form_labels") =>
        LET e == response.args.element
            v == response.result.value
        IN  /\ v # NoneObj =>
                /\ v.rule_id = "form-no-label"
                /\ v.severity = "error" /\ v.wcag_level = A
                /\ v.wcag_criteria = Num3(3, 3, 2)
            /\ v # NoneObj <=>
                /\ e.tag \in FormTags
                /\ EffectiveType(e) \notin SkippedInputTypes
                /\ \A name \in {"id", "aria-label", "aria-labelledby", "title"} :
                       Attr(e, name) = None

\* C22: check_link_text returns at most one issue: for an a element without
\* aria-label, link-no-text (error) when the trimmed text is empty,
\* link-generic-text (warning) when it is one of the generic phrases in any
\* case, nothing otherwise; with an aria-label, or for another tag, nothing
C22_LinkTextCases ==
    IsReturnOf("check_link_text") =>
        LET e == response.args.element
            v == response.result.value
            plain == e.tag = <<"a">> /\ Attr(e, "aria-label") = None
        IN  IF plain /\ Strip(e.text) = <<>>
            THEN /\ v # NoneObj
                 /\ v.rule_id = "link-no-text"
                 /\ v.severity = "error"
            ELSE IF plain /\ Lower(Strip(e.text)) \in generic_texts
            THEN /\ v # NoneObj
                 /\ v.rule_id = "link-generic-text"
                 /\ v.severity = "warning"
            ELSE v = NoneObj

\* C23: check_aria_roles yields aria-invalid-role (error, A, 4.1.2), whatever
\* the tag, exactly when a role attribute is present and its value is not in
\* the allow-list
C23_InvalidRoleIffPresentAndUnlisted ==
    IsReturnOf("check_aria_roles") =>
        LET e == response.args.element
            v == response.result.value
        IN  /\ v # NoneObj =>
                /\ v.rule_id = "aria-invalid-role"
                /\ v.severity = "error" /\ v.wcag_level = A
                /\ v.wcag_criteria = Num3(4, 1, 2)
            /\ v # NoneObj <=>
                (Attr(e, "role") # None /\ Attr(e, "role") \notin valid_roles)

\* C24: severity, wcag_level and wcag_criteria of an issue are functions of
\* its rule_id alone, whatever element triggered it
RuleTable ==
    [rule_id \in {"img-alt-missing", "img-alt-empty", "heading-no-h1",
                  "heading-skipped-level", "form-no-label", "color-contrast-check",
                  "link-no-text", "link-generic-text", "html-no-lang",
                  "aria-invalid-role", "keyboard-no-access", "focus-not-visible",
                  "touch-target-size"} |->
        CASE rule_id = "img-alt-missing" -> <<"error", A, Num3(1, 1, 1)>>
          [] rule_id = "img-alt-empty" -> <<"warning", A, Num3(1, 1, 1)>>
          [] rule_id = "heading-no-h1" -> <<"warning", A, Num3(1, 3, 1)>>
          [] rule_id = "heading-skipped-level" -> <<"error", A, Num3(1, 3, 1)>>
          [] rule_id = "form-no-label" -> <<"error", A, Num3(3, 3, 2)>>
          [] rule_id = "color-contrast-check" -> <<"info", AA, Num3(1, 4, 3)>>
          [] rule_id = "link-no-text" -> <<"error", A, Num3(2, 4, 4)>>
          [] rule_id = "link-generic-text" -> <<"warning", A, Num3(2, 4, 4)>>
          [] rule_id = "html-no-lang" -> <<"error", A, Num3(3, 1, 1)>>
          [] rule_id = "aria-invalid-role" -> <<"error", A, Num3(4, 1, 2)>>
          [] rule_id = "keyboard-no-access" -> <<"error", A, Num3(2, 1, 1)>>
          [] rule_id = "focus-not-visible" -> <<"warning", AA, Num3(2, 4, 7)>>
          [] rule_id = "touch-target-size" -> <<"info", AAA, Num3(2, 5, 5)>>]

\* the issues a call of a checker returned: the one issue, or those of the list
ReturnedIssues ==
    IF ~IsRuleCall \/ response.result.raised THEN {}
    ELSE IF response.op = "check_heading_hierarchy"
    THEN {response.result.value[k] : k \in DOMAIN response.result.value}
    ELSE {response.result.value} \ {NoneObj}

C24_MetadataByRuleId ==
    \A issue \in ReturnedIssues :
        /\ issue.rule_id \in DOMAIN RuleTable
        /\ <<issue.severity, issue.wcag_level, issue.wcag_criteria>>
               = RuleTable[issue.rule_id]

\* an issue of a rule that elements of different content trigger
C24_Witness ==
    /\ IsReturnOf("check_link_text")
    /\ response.result.value # NoneObj
    /\ response.result.value.rule_id = "link-generic-text"
    /\ Attr(response.args.element, "aria-label") = <<>>

----------------------------------------------------------------------------
(* The two entry points that run the rules on a document: every document,  *)
(* over the data files that hold criteria the rules file issues under       *)

DocumentDataFiles ==
    { cs \in DataFiles :
        \A i \in DOMAIN cs : cs[i].number \in {Num3(1, 1, 1), Num3(2, 4, 4)} }

DocumentInit ==
    /\ \/ /\ data = [found |-> FALSE, criteria |-> <<>>]
          /\ criteria_by_number = <<>>
          /\ criteria_by_level = [l \in {A, AA, AAA} |-> <<>>]
          /\ criteria_by_principle = << >>
       \/ \E cs \in DocumentDataFiles :
          /\ data = [found |-> TRUE, criteria |-> cs]
          /\ criteria_by_number = ProcessByNumber(cs)
          /\ criteria_by_level = ProcessByLevel(cs)
          /\ criteria_by_principle = ProcessByPrinciple(cs)
    /\ response = NoneObj

DocumentNext ==
    \/ /\ response = NoneObj
       /\ \E elements \in Documents, include_warnings \in BOOLEAN :
              check_html_accessibility(elements, include_warnings)
    \/ /\ response = NoneObj
       /\ \E elements \in Documents, target_level \in TargetLevels,
             include_suggestions \in BOOLEAN :
              validate_wcag_compliance_level(elements, target_level,
                                             include_suggestions)
    \/ Return

DocumentSpec == DocumentInit /\ [][DocumentNext]_vars


\* the multiset of a list's items
BagOf(seq) ==
    LET items == seq
    IN  [x \in Range(items) |-> Cardinality({k \in DOMAIN items : items[k] = x})]

\* the orders a list of n items can be put in
OrdersOf(n) ==
    {p \in [1..n -> 1..n] : \A i, j \in 1..n : p[i] = p[j] => i = j}

Permuted(elements, p) == [i \in DOMAIN elements |-> elements[p[i]]]

HeadingRules == {"heading-no-h1", "heading-skipped-level"}

\* the issue dicts of a check_html_accessibility result, list after list
Reported(result) == result.errors \o result.warnings \o result.info

\* those of the per-element checks, and those of the heading check
ReportedPerElement(result) ==
    SelectSeq(Reported(result), LAMBDA d : d.rule_id \notin HeadingRules)

ReportedHeading(result) ==
    SelectSeq(Reported(result), LAMBDA d : d.rule_id \in HeadingRules)

\* the violations of a report that the per-element checks gave rise to
ViolationsPerElement(result) ==
    SelectSeq(result.violations, LAMBDA v : v.criterion # Num3(1, 3, 1))

\* the positions of a document's headings, in document order
HeadingPositions(elements) ==
    SelectSeq([k \in DOMAIN elements |-> k],
              LAMBDA k : elements[k].tag \in HeadingTags)

\* C25: the per-element checks do not depend on the order of the elements:
\* for every permutation of the document the multiset of per-element issues
\* of check_html_accessibility and of validate_wcag_compliance_level is the
\* same; the heading check sees the headings in document order
C25_PerElementOrderIndependent ==
    /\ IsHtmlResponse =>
        LET elements == response.args.elements
            include_warnings == response.args.include_warnings
            positions == HeadingPositions(elements)
        IN  /\ \A p \in OrdersOf(Len(elements)) :
                   BagOf(ReportedPerElement(response.result))
                       = BagOf(ReportedPerElement(
                                   HtmlResult(Permuted(elements, p), include_warnings)))
            /\ BagOf(ReportedHeading(response.result))
                   = BagOf(IssueDicts(FilterIssues(
                         check_heading_hierarchy(
                             [n \in DOMAIN positions |-> elements[positions[n]]]).issues,
                         include_warnings)))
    /\ IsReport =>
        LET elements == response.args.elements
        IN  \A p \in OrdersOf(Len(elements)) :
                BagOf(ViolationsPerElement(response.result))
                    = BagOf(ViolationsPerElement(
                                ComplianceResult(Permuted(elements, p),
                                                 response.args.target_level,
                                                 response.args.include_suggestions)))

\* a document of two elements, each with a per-element issue, the later one a
\* heading: the other order gives other heading issues, the same others
C25_Witness ==
    /\ IsHtmlResponse
    /\ response.args.include_warnings
    /\ Len(response.args.elements) = 2
    /\ response.args.elements[1].tag = <<"i", "m", "g">>
    /\ response.args.elements[2].tag = <<"h", "3">>
    /\ Len(ReportedPerElement(response.result)) = 3
    /\ HtmlResult(Permuted(response.args.elements, <<2, 1>>), TRUE) # response.result

\* C26: in validate_wcag_compliance_level the key under which an issue is
\* filed is the wcag_criteria the checker gave the issue, for every group
C26_GroupKeyIsIssueCriterion ==
    IsReport =>
        LET pairs == GroupedIssues(response.args.elements)
            groups == DictItems(pairs)
        IN  /\ groups = CriterionIssues(response.args.elements)
            /\ \A i \in DOMAIN pairs : pairs[i].key = pairs[i].issue.wcag_criteria
            /\ \A n \in DOMAIN groups :
                   \A k \in DOMAIN groups[n].issues :
                       groups[n].issues[k].wcag_criteria = groups[n].number

\* a report on a document that fills three groups, one of them with the
\* heading issue
C26_Witness ==
    /\ IsReport
    /\ Len(CriterionIssues(response.args.elements)) = 3
    /\ \E n \in DOMAIN CriterionIssues(response.args.elements) :
           CriterionIssues(response.args.elements)[n].number = Num3(1, 3, 1)

\* C27: in every report the number of violated criteria is at least 0 and at
\* most the number of required criteria
C27_ViolatedWithinRequired ==
    IsReport =>
        /\ 0 <= response.result.violated_criteria
        /\ response.result.violated_criteria <= response.result.total_required_criteria

\* a report in which every one of two required criteria is violated
C27_Witness ==
    /\ IsReport
    /\ response.result.total_required_criteria = 2
    /\ response.result.violated_criteria = 2

----------------------------------------------------------------------------
(* The results and the state of the catalog: the calls that read the       *)
(* catalog, in any sequence, over every data file                           *)

\* the documents evaluated between the listings: one element at most
CatalogDocuments == { elements \in Documents : Len(elements) <= 1 }

CatalogNext ==
    \/ /\ response = NoneObj
       /\ \E criterion_number \in CriterionNumbers :
              get_wcag_criterion(criterion_number)
    \/ /\ response = NoneObj
       /\ \E search_term \in SearchTerms :
              search_wcag_criteria(search_term)
    \/ /\ response = NoneObj
       /\ \E level \in ListLevels, principle \in ListPrinciples :
              list_wcag_criteria(level, principle)
    \/ /\ response = NoneObj
       /\ \E elements \in CatalogDocuments, target_level \in TargetLevels,
             include_suggestions \in BOOLEAN :
              validate_wcag_compliance_level(elements, target_level,
                                             include_suggestions)
    \/ Return

CatalogSpec == Init /\ [][CatalogNext]_vars


\* the lists of the catalog as loading the data file made them
AsLoadedByLevel(level) ==
    IF level \in DOMAIN ProcessByLevel(data.criteria)
    THEN ProcessByLevel(data.criteria)[level] ELSE <<>>

AsLoadedByPrinciple(principle) ==
    IF principle \in DOMAIN ProcessByPrinciple(data.criteria)
    THEN ProcessByPrinciple(data.criteria)[principle] ELSE <<>>

\* what each call returns from the catalog as loaded
AsLoadedRequired(target_level) ==
    (IF Upper(target_level) \in {A, AA, AAA} THEN AsLoadedByLevel(A) ELSE <<>>)
    \o (IF Upper(target_level) \in {AA, AAA} THEN AsLoadedByLevel(AA) ELSE <<>>)
    \o (IF Upper(target_level) = AAA THEN AsLoadedByLevel(AAA) ELSE <<>>)

AsLoadedSelection(level, principle) ==
    IF Upper(level) = ALL /\ Lower(principle) = all
    THEN ProcessByNumber(data.criteria)
    ELSE IF Upper(level) = ALL THEN AsLoadedByPrinciple(principle)
    ELSE IF Lower(principle) = all THEN AsLoadedByLevel(Upper(level))
    ELSE SelectSeq(AsLoadedByPrinciple(principle), LAMBDA c : c.level = Upper(level))

AsLoadedListing(level, principle) ==
    [k \in DOMAIN AsLoadedSelection(level, principle) |->
        ListEntry(SortByNumber(AsLoadedSelection(level, principle))[k])]

AsLoadedMatches(search_term) ==
    SelectSeq(ProcessByNumber(data.criteria),
              LAMBDA c : \/ Contains(Lower(search_term), Lower(c.title))
                         \/ Contains(Lower(search_term), Lower(c.description))
                         \/ Contains(Lower(search_term), Lower(c.guideline)))

AsLoadedShown(search_term) ==
    SubSeq(AsLoadedMatches(search_term), 1,
           IF Len(AsLoadedMatches(search_term)) < SearchLimit
           THEN Len(AsLoadedMatches(search_term)) ELSE SearchLimit)

AsLoadedRecords(criterion_number) ==
    SelectSeq(ProcessByNumber(data.criteria), LAMBDA c : c.number = criterion_number)

\* C28: what validate_wcag_compliance_level, list_wcag_criteria,
\* search_wcag_criteria and get_wcag_criterion return for given arguments is
\* the same whatever catalog operations came before: it is what the call
\* returns from the catalog as loaded
C28_ResultsIndependentOfHistory ==
    /\ criteria_by_number = ProcessByNumber(data.criteria)
    /\ IsReport =>
           response.result
               = Evaluate(response.args.elements, response.args.target_level,
                          AsLoadedRequired(response.args.target_level),
                          response.args.include_suggestions)
    /\ (IsListResponse /\ "error" \notin DOMAIN response.result) =>
           /\ response.result.criteria
                  = AsLoadedListing(response.args.level, response.args.principle)
           /\ response.result.total_criteria
                  = Len(AsLoadedSelection(response.args.level, response.args.principle))
    /\ IsSearchResponse =>
           /\ response.result.results
                  = [k \in DOMAIN AsLoadedShown(response.args.search_term) |->
                        SearchEntry(AsLoadedShown(response.args.search_term)[k])]
           /\ "total_results" \in DOMAIN response.result =>
                  response.result.total_results
                      = Len(AsLoadedMatches(response.args.search_term))
    /\ (response # NoneObj /\ response.op = "get_wcag_criterion") =>
           IF AsLoadedRecords(response.args.criterion_number) = <<>>
           THEN "error" \in DOMAIN response.result
           ELSE \A f \in {"number", "id", "title", "level", "description",
                          "principle", "guideline"} :
                    response.result[f]
                        = AsLoadedRecords(response.args.criterion_number)[1][f]

\* a listing by principle returned after listings have put the list of the
\* principle and a list of a level in another order than the data file's
C28_Witness ==
    /\ IsListResponse
    /\ "error" \notin DOMAIN response.result
    /\ response.result.total_criteria = 2
    /\ Upper(response.args.level) # ALL
    /\ criteria_by_level # ProcessByLevel(data.criteria)
    /\ criteria_by_principle # ProcessByPrinciple(data.criteria)

----------------------------------------------------------------------------
(* The result of check_html_accessibility *)

\* C29: in the result of check_html_accessibility total_issues is the sum of
\* the lengths of errors, warnings and info, and every issue is in exactly
\* one of them; with include_warnings false, warnings and info are empty and
\* errors is the errors list of the same document with include_warnings true
C29_IssuesPartitioned ==
    IsHtmlResponse =>
        LET result == response.result
            elements == response.args.elements
        IN  /\ result.total_issues
                   = Len(result.errors) + Len(result.warnings) + Len(result.info)
            /\ result.summary = [errors |-> Len(result.errors),
                                 warnings |-> Len(result.warnings),
                                 info |-> Len(result.info)]
            /\ BagOf(Reported(result))
                   = BagOf(IssueDicts(FilterIssues(CollectIssues(elements),
                                                   response.args.include_warnings)))
            /\ ~response.args.include_warnings =>
                   /\ result.warnings = <<>>
                   /\ result.info = <<>>
                   /\ result.errors = HtmlResult(elements, TRUE).errors

\* a document with errors and a warning, checked with include_warnings false
C29_Witness ==
    /\ IsHtmlResponse
    /\ ~response.args.include_warnings
    /\ Len(response.result.errors) = 2
    /\ HtmlResult(response.args.elements, TRUE).warnings # <<>>

\* the issues validate_wcag_compliance_level collects, as issue dicts
CollectedDicts(elements) ==
    LET pairs == GroupedIssues(elements)
    IN  [i \in DOMAIN pairs |-> IssueDict(pairs[i].issue)]

\* every criterion issues are filed under is in the catalog and required
EveryGroupCounts(elements, target_level) ==
    LET pairs == GroupedIssues(elements)
        required_criteria == RequiredCriteria(target_level)
    IN  \A i \in DOMAIN pairs : GroupCounts(pairs[i].key, required_criteria)

\* C30: the two entry points run the same rules: the multiset of issues
\* validate_wcag_compliance_level collects before it filters them is the
\* multiset check_html_accessibility reports with include_warnings true; so
\* when every criterion with issues is in the catalog and required,
\* total_violations equals total_issues
C30_SameRuleSet ==
    /\ IsReport =>
        LET reported == HtmlResult(response.args.elements, TRUE)
        IN  /\ BagOf(CollectedDicts(response.args.elements))
                   = BagOf(Reported(reported))
            /\ EveryGroupCounts(response.args.elements, response.args.target_level) =>
                   response.result.total_violations = reported.total_issues
    /\ (IsHtmlResponse /\ response.args.include_warnings) =>
        /\ BagOf(Reported(response.result))
               = BagOf(CollectedDicts(response.args.elements))
        /\ response.result.total_issues = Len(GroupedIssues(response.args.elements))

\* a report with two violations of two criteria, all the issues of the
\* document
C30_Witness ==
    /\ IsReport
    /\ response.result.total_violations = 2
    /\ response.result.violated_criteria = 2
    /\ EveryGroupCounts(response.args.elements, response.args.target_level)

====
